---- MODULE Spec2Model ----
(***************************************************************************)
(* Section generation with two-phase fallback and the retry wrappers of    *)
(* morsh26/batch-report-generator (src/core/ai_engine.py).                 *)
(*                                                                         *)
(* The entry points are verified one per behaviour (variable `running`):   *)
(*   generate_section_with_fallback  - phase 1 / phase 2 over              *)
(*                                     call_section_api                    *)
(*   generate_with_retry             - the Gemini retry loop               *)
(*   cli_runner, batch_report_generator - main and process_company         *)
(*   server                          - process_report_async                *)
(*   get_default_structure_map       - the heuristic page ranges           *)
(* Texts (response bodies, exception messages, model output) are tuples of *)
(* one-character strings, so that lower(), strip() and the substring tests *)
(* are computed as Python computes them.                                   *)
(***************************************************************************)
EXTENDS Integers, Sequences, FiniteSets, TLC

VARIABLES running, pc,
          section_id, primary_uri, secondary_uri, fallback_uri,
          rate_limit_retries, general_retries,
          requests, sleeps, reply,
          primary_ret, fallback_ret, result, raised,
          attempt, outcome, gwr_return,
          company, doc, is_heavy, total_pages,
          board_slice_bytes, financial_slice_bytes,
          full_annual_uri, board_slice_uri, financial_slice_uri, quarterly_uri,
          calls, html_sections, failed_sections, events,
          final_html, saved, company_ret, report_status, structure_map,
          fully_successful, partial_success, total_failed,
          toc_text, response_text, map_raised, report_slices,
          start_page, end_page, sliced,
          rerun, first_run, responses,
          tasks, bucket, in_flight, writes, report_rows,
          section_requests, status_updates

\* the state of one call of generate_section_with_fallback / generate_with_retry
section_vars ==
  <<section_id, primary_uri, secondary_uri, fallback_uri,
    rate_limit_retries, general_retries, requests, sleeps, reply,
    primary_ret, fallback_ret, result, raised, attempt, outcome, gwr_return>>

\* the locals of process_company / process_report_async for one company
company_vars ==
  <<doc, is_heavy, total_pages, board_slice_bytes, financial_slice_bytes,
    full_annual_uri, board_slice_uri, financial_slice_uri, quarterly_uri,
    calls, html_sections, failed_sections, events, final_html, saved,
    company_ret, report_status, structure_map>>

\* the loop of main over the company directories
batch_vars == <<company, fully_successful, partial_success, total_failed>>

\* the arguments and results of map_report_structure, create_report_slices
\* and slice_pdf when they are run by themselves
pdf_vars ==
  <<toc_text, response_text, map_raised, report_slices, start_page, end_page, sliced>>

\* two runs of process_company on the same company: whether the batch is
\* such a rerun, the first run, and what the collaborators answered in the
\* current run
replay_vars == <<rerun, first_run, responses>>

\* the server and its store: the background tasks, the storage bucket, the
\* uploads in flight, the uploads stored, the rows of the reports table, and
\* for every task the section requests and the status updates it issued
server_vars ==
  <<tasks, bucket, in_flight, writes, report_rows, section_requests,
    status_updates>>

vars == <<running, pc, section_vars, company_vars, batch_vars, pdf_vars,
          replay_vars, server_vars>>

----------------------------------------------------------------------------
(* Program constants (src/core/config.py, src/core/ai_engine.py)            *)

MAX_RETRIES == 6
BASE_DELAY == 30
MAX_DELAY == 600
max_general_retries == 3

None == "None"
Absent == "<absent>"

SECTIONS ==
  << "company_profile", "executive_summary", "business_environment",
     "asset_portfolio_analysis", "debt_structure", "financial_analysis",
     "cash_flow_and_liquidity", "liquidation_analysis" >>

\* the Hebrew display names, transliterated
SECTION_DISPLAY_NAMES ==
  [ company_profile |-> "profil hevra",
    executive_summary |-> "taktsir menahalim",
    business_environment |-> "sviva iskit",
    asset_portfolio_analysis |-> "nituah tik nehasim",
    debt_structure |-> "mivne hov",
    financial_analysis |-> "nituah finansi",
    cash_flow_and_liquidity |-> "tazrim mezumanim ve-nezilut",
    liquidation_analysis |-> "nituah peruk" ]

----------------------------------------------------------------------------
(* Python text primitives                                                  *)

UpperCase ==
  << "A","B","C","D","E","F","G","H","I","J","K","L","M",
     "N","O","P","Q","R","S","T","U","V","W","X","Y","Z" >>

LowerCase ==
  << "a","b","c","d","e","f","g","h","i","j","k","l","m",
     "n","o","p","q","r","s","t","u","v","w","x","y","z" >>

\* str.lower() on one character
LowerChar(c) ==
  IF \E i \in 1..Len(UpperCase) : UpperCase[i] = c
    THEN LowerCase[CHOOSE i \in 1..Len(UpperCase) : UpperCase[i] = c]
    ELSE c

\* str.lower()
Lower(s) == [ i \in 1..Len(s) |-> LowerChar(s[i]) ]

\* Python's `keyword in text` (substring test)
Contains(text, keyword) ==
  \E i \in 0..(Len(text) - Len(keyword)) :
     \A j \in 1..Len(keyword) : text[i + j] = keyword[j]

\* Python truthiness of the values a section body can take
Truthy(v) == v \notin { None, "" }

\* dict.get(key, default) on the parsed JSON object
DictGet(d, key, default) == IF d[key] = Absent THEN default ELSE d[key]

RECURSIVE Pow2(_)
Pow2(n) == IF n = 0 THEN 1 ELSE 2 * Pow2(n - 1)

Min(a, b) == IF a <= b THEN a ELSE b

----------------------------------------------------------------------------
(* Error classification (ai_engine.py 250-270)                             *)

token_limit_keywords ==
  { <<"t","o","k","e","n">>,
    <<"l","i","m","i","t">>,
    <<"e","x","c","e","e","d">>,
    <<"i","n","v","a","l","i","d","a","r","g","u","m","e","n","t">>,
    <<"r","e","s","o","u","r","c","e","e","x","h","a","u","s","t","e","d">>,
    <<"t","o","o"," ","l","a","r","g","e">>,
    <<"c","o","n","t","e","x","t"," ","l","e","n","g","t","h">> }

rate_limit_keywords ==
  { <<"t","o","o"," ","m","a","n","y"," ","r","e","q","u","e","s","t","s">>,
    <<"r","a","t","e"," ","l","i","m","i","t">>,
    <<"q","u","o","t","a">>,
    <<"4","2","9">>,
    <<"r","e","s","o","u","r","c","e"," ","e","x","h","a","u","s","t","e","d">> }

\* mutant: the status-400 test is lost
is_token_limit_error_keywords_only(response) ==
  \E keyword \in token_limit_keywords : Contains(Lower(response.text), keyword)

is_token_limit_error(response) ==
  IF response.status_code = 400 THEN TRUE
  ELSE \E keyword \in token_limit_keywords :
          Contains(Lower(response.text), keyword)

is_rate_limit_error(response) ==
  IF response.status_code = 429 THEN TRUE
  ELSE \E keyword \in rate_limit_keywords :
          Contains(Lower(response.text), keyword)

----------------------------------------------------------------------------
(* What the section-authoring service can answer to one requests.post      *)

ErrorTexts ==
  { <<>>,
    <<"I","n","t","e","r","n","a","l"," ","E","r","r","o","r">>,
    <<"R","a","t","e"," ","L","i","m","i","t">>,
    <<"Q","U","O","T","A">>,
    <<"T","o","o"," ","M","a","n","y"," ","R","e","q","u","e","s","t","s">>,
    <<"e","r","r","o","r"," ","4","2","9">>,
    <<"R","e","s","o","u","r","c","e"," ","E","x","h","a","u","s","t","e","d">>,
    <<"R","e","s","o","u","r","c","e","E","x","h","a","u","s","t","e","d">>,
    <<"T","o","k","e","n">>,
    <<"E","x","c","e","e","d","e","d">>,
    <<"I","n","v","a","l","i","d","A","r","g","u","m","e","n","t">>,
    <<"T","o","o"," ","L","a","r","g","e">>,
    <<"C","o","n","t","e","x","t"," ","L","e","n","g","t","h">>,
    <<"L","I","M","I","T">> }

\* bodies sent with each error status: every text with 503, which decides
\* nothing by itself, and a few with the statuses the code tests
ErrorBodies ==
  { <<503, t>> : t \in ErrorTexts }
  \cup { <<c, t>> : c \in { 400, 500 },
                   t \in { <<>>, <<"Q","U","O","T","A">>, <<"T","o","k","e","n">> } }
  \cup { <<429, t>> : t \in { <<>>, <<"R","a","t","e"," ","L","i","m","i","t">> } }

\* a body that response.json() rejects, and one that parses to a list
NotJson == [ kind |-> "not_json", html |-> Absent, content |-> Absent ]
JsonList == [ kind |-> "list", html |-> Absent, content |-> Absent ]

\* parsed bodies of a status-200 answer: no JSON, a JSON list, or an object
\* with each of the keys html / content absent, empty or filled
JsonBodies ==
  { NotJson, JsonList } \cup
  [ kind : { "object" },
    html : { Absent, "", "<p>html</p>" },
    content : { Absent, "", "<p>content</p>" } ]

NoReply == [ kind |-> "none", status_code |-> 0, text |-> <<>>, json |-> NotJson ]

\* requests.post raises Timeout, raises another exception, or returns
Replies ==
  { [ NoReply EXCEPT !.kind = "timeout" ], [ NoReply EXCEPT !.kind = "exception" ] }
  \cup { [ kind |-> "response", status_code |-> 200, text |-> <<>>, json |-> j ] :
           j \in JsonBodies }
  \cup { [ kind |-> "response", status_code |-> 200,
            text |-> <<"T","o","k","e","n"," ","L","i","m","i","t">>,
            json |-> [ kind |-> "object", html |-> "<p>html</p>", content |-> Absent ] ] }
  \cup { [ kind |-> "response", status_code |-> b[1], text |-> b[2], json |-> NotJson ] :
           b \in ErrorBodies }

\* the two classifiers, tabulated over the answers
ReplyClass ==
  [ r \in Replies |->
      [ rate_limit |-> is_rate_limit_error(r), token_limit |-> is_token_limit_error(r) ] ]

----------------------------------------------------------------------------
(* call_section_api (ai_engine.py 273-382): one pass of `while True`       *)

\* time.sleep calls, kept per call site
Causes == { "rate_limit", "server_error", "timeout", "unavailable", "deadline", "other" }

NoSleeps == [ c \in Causes |-> <<>> ]

Sleep(why, secs) == [ why |-> why, secs |-> secs ]

AddSleeps(log, slept) ==
  IF slept = <<>> THEN log
  ELSE [ log EXCEPT ![slept[1].why] = Append(@, slept[1].secs) ]

Continue(rate, gen, slept) ==
  [ ctl |-> "continue", html_content |-> None, is_token_error |-> FALSE,
    rate_limit_retries |-> rate, general_retries |-> gen, slept |-> slept ]

Return(html, is_token, rate, gen) ==
  [ ctl |-> "return", html_content |-> html, is_token_error |-> is_token,
    rate_limit_retries |-> rate, general_retries |-> gen, slept |-> <<>> ]

Raise(rate, gen) ==
  [ ctl |-> "raise", html_content |-> None, is_token_error |-> FALSE,
    rate_limit_retries |-> rate, general_retries |-> gen, slept |-> <<>> ]

\* payload of lines 293-300
Payload(sid, file_uri1, file_uri2) ==
  [ sectionId |-> sid,
    fileUri1 |-> file_uri1,
    fileUri2 |-> IF Truthy(file_uri2) THEN file_uri2 ELSE "" ]

\* mutant: the exponent is the retry count, not the retry count less one
rate_limit_wait_off_by_one(retries) == Min(BASE_DELAY * Pow2(retries), MAX_DELAY)

\* wait_time of line 332
rate_limit_wait(retries) == Min(BASE_DELAY * Pow2(retries - 1), MAX_DELAY)

\* mutant: the exception is not caught
on_exception_uncaught(rate, gen) == Raise(rate, gen)

\* lines 380-382
on_exception(rate, gen) == Return(None, FALSE, rate, gen)

\* lines 320-326: a status-200 answer
on_status_200(response, rate, gen) ==
  IF response.json.kind # "object"
    THEN on_exception(rate, gen)             \* json() or get() raises
    ELSE LET html_content ==
               DictGet(response.json, "html", DictGet(response.json, "content", ""))
         IN IF Truthy(html_content)
              THEN Return(html_content, FALSE, rate, gen)
              ELSE Return(None, FALSE, rate, gen)

\* mutant: `<` for `<=`, one retry fewer
on_rate_limit_strict(rate, gen) ==
  LET retries == rate + 1
  IN IF retries < MAX_RETRIES
       THEN Continue(retries, gen, << Sleep("rate_limit", rate_limit_wait(retries)) >>)
       ELSE Return(None, FALSE, retries, gen)

\* mutant: the rate-limit retries are cut off by the two counters together
on_rate_limit_shared_budget(rate, gen) ==
  LET retries == rate + 1
  IN IF retries + gen <= MAX_RETRIES
       THEN Continue(retries, gen, << Sleep("rate_limit", rate_limit_wait(retries)) >>)
       ELSE Return(None, FALSE, retries, gen)

\* lines 329-341
on_rate_limit(rate, gen) ==
  LET retries == rate + 1
  IN IF retries <= MAX_RETRIES
       THEN Continue(retries, gen, << Sleep("rate_limit", rate_limit_wait(retries)) >>)
       ELSE Return(None, FALSE, retries, gen)

\* mutant: `<=` for `<`, one general retry more
on_status_500_inclusive(rate, gen) ==
  LET retries == gen + 1
  IN IF retries <= max_general_retries
       THEN Continue(rate, retries, << Sleep("server_error", 10 * retries) >>)
       ELSE Return(None, FALSE, rate, retries)

\* lines 348-363
on_status_500(rate, gen) ==
  LET retries == gen + 1
  IN IF retries < max_general_retries
       THEN Continue(rate, retries, << Sleep("server_error", 10 * retries) >>)
       ELSE Return(None, FALSE, rate, retries)

\* lines 370-379
on_timeout(rate, gen) ==
  LET retries == gen + 1
  IN IF retries < max_general_retries
       THEN Continue(rate, retries, << Sleep("timeout", 10) >>)
       ELSE Return(None, FALSE, rate, retries)

\* mutant: every 5xx status is retried like a 500
on_other_status_retry_5xx(response, rate, gen) ==
  IF response.status_code >= 500
    THEN LET retries == gen + 1
         IN IF retries < max_general_retries
              THEN Continue(rate, retries, << Sleep("server_error", 10 * retries) >>)
              ELSE Return(None, FALSE, rate, retries)
    ELSE Return(None, FALSE, rate, gen)

\* lines 365-368
on_other_status(response, rate, gen) == Return(None, FALSE, rate, gen)

\* mutant: the counters are kept from the call before
call_section_api_entry_keeps_counters(rate, gen) ==
  [ rate_limit_retries |-> rate, general_retries |-> gen ]

\* lines 307-308: the two counters at the entry of a call, whatever the
\* counters of the call before were
call_section_api_entry(rate, gen) ==
  [ rate_limit_retries |-> 0, general_retries |-> 0 ]

call_section_api_step(rate, gen, r) ==
  IF r.kind = "timeout" THEN on_timeout(rate, gen)
  ELSE IF r.kind = "exception" THEN on_exception(rate, gen)
  ELSE IF r.status_code = 200 THEN on_status_200(r, rate, gen)
  ELSE IF ReplyClass[r].rate_limit THEN on_rate_limit(rate, gen)
  ELSE IF ReplyClass[r].token_limit THEN Return(None, TRUE, rate, gen)
  ELSE IF r.status_code = 500 THEN on_status_500(rate, gen)
  ELSE on_other_status(r, rate, gen)

----------------------------------------------------------------------------
(* generate_section_with_fallback (ai_engine.py 385-445)                   *)

display_name(sid) ==
  IF sid \in DOMAIN SECTION_DISPLAY_NAMES THEN SECTION_DISPLAY_NAMES[sid] ELSE sid

NoResult == [ class |-> "none", id |-> None, name |-> None, inner |-> None ]

\* <div class="section" id="{section_id}">{html_content}</div>
SectionDiv(sid, html_content) ==
  [ class |-> "section", id |-> sid, name |-> None, inner |-> html_content ]

\* <div class="error">... {display_name} ...</div>, one wording per failure
ErrorDiv(sid, message) ==
  [ class |-> "error", id |-> None, name |-> display_name(sid), inner |-> message ]

\* arguments of the two calls, lines 412-414 and 424-426
primary_call_args(primary, secondary, fallback) == << primary, secondary >>

\* mutant: only the primary document is swapped, the secondary is kept
fallback_call_args_keep_secondary(primary, secondary, fallback) ==
  << fallback, secondary >>

fallback_call_args(primary, secondary, fallback) == << fallback, None >>

\* mutant: every phase 1 failure goes to phase 2
after_primary_always_fallback(sid, html_content, is_token_error) ==
  IF Truthy(html_content)
    THEN [ next |-> "return", value |-> SectionDiv(sid, html_content) ]
    ELSE [ next |-> "phase2", value |-> NoResult ]

\* lines 416-421, 444-445: what follows the phase 1 call
after_primary(sid, html_content, is_token_error) ==
  IF Truthy(html_content)
    THEN [ next |-> "return", value |-> SectionDiv(sid, html_content) ]
  ELSE IF is_token_error
    THEN [ next |-> "phase2", value |-> NoResult ]
  ELSE [ next |-> "return", value |-> ErrorDiv(sid, "generic") ]

\* mutant: the two phase 2 error wordings are swapped
after_fallback_swapped(sid, html_content, is_token_error_2) ==
  IF Truthy(html_content)
    THEN [ next |-> "return", value |-> SectionDiv(sid, html_content) ]
  ELSE IF is_token_error_2
    THEN [ next |-> "return", value |-> ErrorDiv(sid, "fallback_failed") ]
  ELSE [ next |-> "return", value |-> ErrorDiv(sid, "too_large_even_single_file") ]

\* mutant: a phase 2 answer is never accepted
after_fallback_no_success(sid, html_content, is_token_error_2) ==
  IF is_token_error_2
    THEN [ next |-> "return", value |-> ErrorDiv(sid, "too_large_even_single_file") ]
    ELSE [ next |-> "return", value |-> ErrorDiv(sid, "fallback_failed") ]

\* lines 428-442: what follows the phase 2 call
after_fallback(sid, html_content, is_token_error_2) ==
  IF Truthy(html_content)
    THEN [ next |-> "return", value |-> SectionDiv(sid, html_content) ]
  ELSE IF is_token_error_2
    THEN [ next |-> "return", value |-> ErrorDiv(sid, "too_large_even_single_file") ]
  ELSE [ next |-> "return", value |-> ErrorDiv(sid, "fallback_failed") ]

----------------------------------------------------------------------------
(* generate_with_retry (ai_engine.py 68-161): one pass of the `for` loop   *)

\* str.strip()
IsSpace(c) == c \in { " ", "\t", "\n" }

Strip(s) ==
  LET keep == { i \in 1..Len(s) : ~IsSpace(s[i]) }
  IN IF keep = {} THEN <<>>
     ELSE SubSeq(s, CHOOSE i \in keep : \A j \in keep : i <= j,
                    CHOOSE i \in keep : \A j \in keep : i >= j)

ModelTexts ==
  { <<>>, <<" ">>, <<"{","}">>, <<" ","{","}","\n">> }

ExceptionTexts ==
  { <<"c","o","n","n","e","c","t","i","o","n"," ","r","e","s","e","t">>,
    <<"Q","u","o","t","a">>,
    <<"H","T","T","P"," ","4","2","9">>,
    <<"R","e","s","o","u","r","c","e"," ","b","u","s","y">>,
    <<"E","x","h","a","u","s","t","e","d">>,
    <<"T","o","o"," ","M","a","n","y"," ","R","e","q","u","e","s","t","s">> }

NoOutcome == [ kind |-> "none", text |-> <<>> ]

\* model.generate_content returns a response or raises
Outcomes ==
  { [ kind |-> "text", text |-> t ] : t \in ModelTexts }
  \cup { [ kind |-> k, text |-> <<>> ] :
           k \in { "ResourceExhausted", "ServiceUnavailable", "DeadlineExceeded" } }
  \cup { [ kind |-> "Exception", text |-> t ] : t \in ExceptionTexts }

\* wait_time of lines 109, 119, 129, 143
backoff_wait(base_delay, att) == Min(base_delay * Pow2(att), MAX_DELAY)

\* line 142
message_is_rate_limit(error_str) ==
  \/ Contains(error_str, <<"4","2","9">>)
  \/ Contains(error_str, <<"r","e","s","o","u","r","c","e">>)
  \/ Contains(error_str, <<"e","x","h","a","u","s","t","e","d">>)
  \/ Contains(error_str, <<"q","u","o","t","a">>)

NotReturned == [ state |-> "running", text |-> <<>> ]
ReturnText(t) == [ state |-> "text", text |-> t ]
ReturnNone == [ state |-> "None", text |-> <<>> ]

NextAttempt(slept) == [ ctl |-> "next", value |-> NotReturned, slept |-> slept ]

generate_with_retry_step(max_retries, base_delay, att, o) ==
  IF o.kind = "text" THEN
       IF Len(o.text) > 0
         THEN [ ctl |-> "return", value |-> ReturnText(Strip(o.text)), slept |-> <<>> ]
         ELSE NextAttempt(<<>>)
  ELSE IF o.kind = "ResourceExhausted" THEN
       NextAttempt(<< Sleep("rate_limit", backoff_wait(base_delay, att)) >>)
  ELSE IF o.kind = "ServiceUnavailable" THEN
       NextAttempt(<< Sleep("unavailable", backoff_wait(base_delay, att)) >>)
  ELSE IF o.kind = "DeadlineExceeded" THEN
       NextAttempt(<< Sleep("deadline", backoff_wait(base_delay, att)) >>)
  ELSE IF message_is_rate_limit(Lower(o.text)) THEN
       NextAttempt(<< Sleep("rate_limit", backoff_wait(base_delay, att)) >>)
  ELSE IF att < max_retries - 1 THEN
       NextAttempt(<< Sleep("other", Min(10 * (att + 1), 60)) >>)
  ELSE NextAttempt(<<>>)

----------------------------------------------------------------------------
(* The company pipeline: process_company (cli_runner.py 159-345 and the    *)
(* older batch_report_generator.py 831-975) and process_report_async       *)
(* (server.py 206-354)                                                     *)

HEAVY_REPORT_THRESHOLD == 300
API_DELAY == 5

\* length of sorted(company_dirs) in main
NumCompanies == 2

BOARD_REPORT_SECTIONS ==
  { "company_profile", "executive_summary", "business_environment",
    "asset_portfolio_analysis" }

FINANCIAL_STATEMENTS_SECTIONS ==
  { "debt_structure", "financial_analysis", "cash_flow_and_liquidity",
    "liquidation_analysis" }

Pipelines == { "cli_runner", "batch_report_generator", "server" }
Batches == { "cli_runner", "batch_report_generator" }

\* the largest document get_default_structure_map is applied to
MaxPages == 1000

\* `structure_map` before map_report_structure has returned
NoMap ==
  [ board_report |-> [ start |-> 0, end |-> 0 ],
    financial_statements |-> [ start |-> 0, end |-> 0 ],
    notes |-> [ start |-> 0, end |-> 0 ] ]

\* mutant: the financial statements end at half of the document
get_default_structure_map_half(pages) ==
  LET board_end == (pages * 25) \div 100
      financial_end == (pages * 50) \div 100
  IN [ board_report |-> [ start |-> 0, end |-> board_end ],
       financial_statements |-> [ start |-> board_end, end |-> financial_end ],
       notes |-> [ start |-> financial_end, end |-> pages - 1 ] ]

\* pdf_processor.py 149-175. int(total_pages * 0.25) and
\* int(total_pages * 0.60) truncate a double product; for the page counts
\* 0..200000 it is the integer quotient of 25 * total_pages and
\* 60 * total_pages by 100.
get_default_structure_map(pages) ==
  LET board_end == (pages * 25) \div 100
      financial_start == board_end
      financial_end == (pages * 60) \div 100
      notes_start == financial_end
  IN [ board_report |-> [ start |-> 0, end |-> board_end ],
       financial_statements |-> [ start |-> financial_start, end |-> financial_end ],
       notes |-> [ start |-> notes_start, end |-> pages - 1 ] ]

\* What a company directory (or the two URLs of a request) holds: the annual
\* report is missing, cannot be read / downloaded, or is there; `pages` is
\* its real page count and `corrupt` says that fitz.open fails on it;
\* `quarterly` says that a quarterly report comes with it.
NoDocument ==
  [ annual |-> "missing", pages |-> 0, corrupt |-> FALSE, quarterly |-> FALSE ]

Documents ==
  { NoDocument,
    [ annual |-> "unreadable", pages |-> 50, corrupt |-> FALSE, quarterly |-> FALSE ],
    [ annual |-> "present", pages |-> 50, corrupt |-> FALSE, quarterly |-> TRUE ],
    [ annual |-> "present", pages |-> 300, corrupt |-> FALSE, quarterly |-> FALSE ],
    [ annual |-> "present", pages |-> 301, corrupt |-> FALSE, quarterly |-> TRUE ],
    [ annual |-> "present", pages |-> 400, corrupt |-> TRUE, quarterly |-> TRUE ] }

\* batch_report_generator.py hands paths on and has no read_pdf_bytes step
DocumentsOf(entry) ==
  IF entry = "batch_report_generator"
    THEN { d \in Documents : d.annual # "unreadable" }
    ELSE Documents

\* pdf_processor.py 26-43: a document that cannot be opened counts 0 pages
get_pdf_page_count(d) == IF d.corrupt THEN 0 ELSE d.pages

\* mutant: the threshold itself counts as heavy
is_heavy_report_inclusive(d) ==
  LET count == get_pdf_page_count(d)
  IN [ is_heavy |-> count >= HEAVY_REPORT_THRESHOLD, total_pages |-> count ]

\* pdf_processor.py 46-58
is_heavy_report(d) ==
  LET count == get_pdf_page_count(d)
  IN [ is_heavy |-> count > HEAVY_REPORT_THRESHOLD, total_pages |-> count ]

\* create_report_slices after map_report_structure: each slice is bytes or None
SliceResults == [ board_slice : BOOLEAN, financial_slice : BOOLEAN ]

\* mutant: a heavy document is processed as heavy only with both slices
heavy_after_slicing_needs_both(board, financial) == board /\ financial

\* mutant: a heavy document stays heavy without slices
heavy_after_slicing_stays_heavy(board, financial) == TRUE

\* cli_runner.py 231-233: `if not board_slice_bytes and not
\* financial_slice_bytes: is_heavy = False`
heavy_after_slicing(board, financial) == ~ ( ~board /\ ~financial )

\* server.py 251-253: `if not board_uri and not financial_uri: is_heavy = False`
heavy_after_slice_upload(board_uri, financial_uri) ==
  ~ ( ~Truthy(board_uri) /\ ~Truthy(financial_uri) )

\* upload_pdf_to_gemini returns the handle of the uploaded file or None
UploadResults(handle) == { None, handle }

\* mutant: a missing handle does not stop the company
upload_failed_ignored(heavy, full_uri, board_uri, financial_uri) == FALSE

\* cli_runner.py 254-256 and 260-262: no handle for the primary input
upload_failed(heavy, full_uri, board_uri, financial_uri) ==
  IF heavy THEN board_uri = None /\ financial_uri = None
           ELSE full_uri = None

\* mutant: the first handle, also when it is None
PyOr_left(a, b) == a

\* Python's `a or b` on two handles
PyOr(a, b) == IF Truthy(a) THEN a ELSE b

CallOf(sid, primary, secondary, fallback) ==
  [ section_id |-> sid, primary_uri |-> primary, secondary_uri |-> secondary,
    fallback_uri |-> fallback ]

\* mutant: every section of a heavy document reads the board slice first
section_uris_board_first(heavy, sid, full_uri, board_uri, financial_uri, quarterly) ==
  IF heavy
    THEN CallOf(sid, PyOr(board_uri, financial_uri), quarterly,
                PyOr(board_uri, financial_uri))
    ELSE CallOf(sid, full_uri, quarterly, full_uri)

\* cli_runner.py 277-301: the arguments of generate_section_with_fallback
section_uris(heavy, sid, full_uri, board_uri, financial_uri, quarterly) ==
  IF heavy
    THEN LET primary == IF sid \in BOARD_REPORT_SECTIONS
                          THEN PyOr(board_uri, financial_uri)
                          ELSE PyOr(financial_uri, board_uri)
         IN CallOf(sid, primary, quarterly, primary)
    ELSE CallOf(sid, full_uri, quarterly, full_uri)

\* server.py 290-304: the same routing; a standard document has its one
\* handle in board_uri and financial_uri
server_section_uris(heavy, sid, board_uri, financial_uri, quarterly) ==
  LET section_uri == IF heavy
                       THEN IF sid \in BOARD_REPORT_SECTIONS
                              THEN PyOr(board_uri, financial_uri)
                              ELSE PyOr(financial_uri, board_uri)
                       ELSE board_uri
  IN CallOf(sid, section_uri, quarterly, section_uri)

\* The failure each section is explored with; the pipelines look at nothing
\* but `class="error"`, and the three kinds occur over the eight sections.
SectionFailures ==
  [ company_profile |-> "generic",
    executive_summary |-> "too_large_even_single_file",
    business_environment |-> "fallback_failed",
    asset_portfolio_analysis |-> "generic",
    debt_structure |-> "too_large_even_single_file",
    financial_analysis |-> "fallback_failed",
    cash_flow_and_liquidity |-> "generic",
    liquidation_analysis |-> "fallback_failed" ]

\* content of a section whose markup carries an element of class error
\* (the service authors the HTML; call_section_api returns it as it came)
StyledContent == "<p class=\"error\">html</p>"

\* the one section for which the service is taken to answer with StyledContent
StyledSection == "liquidation_analysis"

\* what generate_section_with_fallback returns for a section
SectionResults(sid) ==
  { SectionDiv(sid, "<p>html</p>"), ErrorDiv(sid, SectionFailures[sid]) }
    \cup ( IF sid = StyledSection THEN { SectionDiv(sid, StyledContent) } ELSE {} )

\* the text of generated content, cut at its tags and attributes
ContentPieces(html_content) ==
  CASE html_content = "<p>html</p>" -> << "<p", ">", "html", "</p>" >>
    [] html_content = StyledContent ->
         << "<p", "class=\"error\"", ">", "html", "</p>" >>
    [] OTHER -> << html_content >>

\* ai_engine.py 418, 430, 436-445: the text of a fragment, the f-string
\* around the content or the message, cut at its tags and attributes
Pieces(section_html) ==
  IF section_html.class = "error"
    THEN << "<div", "class=\"error\"", ">", section_html.inner, "</div>" >>
    ELSE << "<div", "class=\"section\"", "id", ">" >>
           \o ContentPieces(section_html.inner) \o << "</div>" >>

\* mutant: the test looks at the class of the fragment's own div only
HasErrorClass_of_the_div(section_html) == section_html.class = "error"

\* `'class="error"' in section_html`: a search of the whole text
HasErrorClass(section_html) ==
  \E i \in 1..Len(Pieces(section_html)) :
    Pieces(section_html)[i] = "class=\"error\""

\* server.py 272-283: the holding chart block, a div of class section
holding_chart_html ==
  [ class |-> "section", id |-> None, name |-> None, inner |-> "holding_chart" ]

\* mutant: an error placeholder is left out of the report
append_section_drops_errors(entry, sections, sid, section_html) ==
  IF HasErrorClass(section_html) THEN sections ELSE Append(sections, section_html)

\* cli_runner.py 303, server.py 306-309
append_section(entry, sections, sid, section_html) ==
  IF entry = "server" /\ sid = "company_profile"
    THEN Append(Append(sections, section_html), holding_chart_html)
    ELSE Append(sections, section_html)

\* mutant: the loop stops at the first failed section
sections_left_until_failure(done, section_html) ==
  done < Len(SECTIONS) /\ ~HasErrorClass(section_html)

\* `for section_id in SECTIONS`: is there a next pass after `done` passes
sections_left(done, section_html) == done < Len(SECTIONS)

\* mutant: no pacing after a failed section
pacing_after_success_only(section_html) ==
  IF HasErrorClass(section_html) THEN 0 ELSE API_DELAY

\* cli_runner.py 308, server.py 314: time.sleep(API_DELAY)
pacing(section_html) == API_DELAY

\* report_builder.py 264-271: template, the sections joined in order, footer
assemble_report(sections) == sections

Event(op, arg, secs) == [ op |-> op, arg |-> arg, secs |-> secs ]

\* what process_company hands to main: nothing yet, a pair
\* (success, failed_sections), or an exception
NoReturnValue ==
  [ returned |-> FALSE, raised |-> FALSE, success |-> FALSE,
    failed_sections |-> <<>> ]

ReturnValue(success, failed) ==
  [ returned |-> TRUE, raised |-> FALSE, success |-> success,
    failed_sections |-> failed ]

RaisedException ==
  [ returned |-> FALSE, raised |-> TRUE, success |-> FALSE,
    failed_sections |-> <<>> ]

NoStatus == [ status |-> "none", failure_reason |-> None ]

Status(status, failure_reason) ==
  [ status |-> status, failure_reason |-> failure_reason ]

----------------------------------------------------------------------------
(* map_report_structure (pdf_processor.py 178-279)                         *)
(*                                                                         *)
(* The answer of the model is a tuple of tokens: the code fence (three     *)
(* backquotes, token "fence"), the word                                    *)
(* json, white space, prose, the braces and brackets, and the members of a *)
(* JSON object, which carry the parsed object; split, strip, startswith,   *)
(* find and rfind are computed on the tokens as Python computes them on    *)
(* the characters.                                                         *)

Max(a, b) == IF a >= b THEN a ELSE b

\* one member of the answer: missing, a number instead of an object, or an
\* object whose start / end is an integer, missing or null
NoRegion ==
  [ kind |-> "absent", start_is |-> "missing", start |-> 0,
    end_is |-> "missing", end |-> 0 ]

NotADict == [ NoRegion EXCEPT !.kind = "number" ]

Range(s, e) ==
  [ kind |-> "dict", start_is |-> "int", start |-> s, end_is |-> "int", end |-> e ]

NoBody ==
  [ board_report |-> NoRegion, financial_statements |-> NoRegion, notes |-> NoRegion ]

\* the answer of the 500-page example
Scenario500 ==
  [ board_report |-> Range(1, 120), financial_statements |-> Range(121, 300),
    notes |-> Range(301, 500) ]

\* page numbers the model may give, 1-indexed, from below the first page to
\* beyond the last
PageNumbers == { -3, 0, 1, 120, 121, 300, 301, 499, 500, 501, 700 }

RegionKeys == << "board_report", "financial_statements", "notes" >>

\* parsed objects: the example, one region with any two page numbers, and
\* regions that lack a bound, have null for one or are no object
Bodies ==
  { Scenario500, NoBody }
  \cup { [ Scenario500 EXCEPT ![RegionKeys[k]] = NoRegion ] : k \in 1..3 }
  \cup { [ NoBody EXCEPT ![RegionKeys[k]] = Range(s, e) ] :
           k \in 1..3, s \in PageNumbers, e \in PageNumbers }
  \cup { [ Scenario500 EXCEPT ![RegionKeys[k]] = r ] :
           k \in 1..3,
           r \in { NotADict,
                   [ Range(0, 200) EXCEPT !.start_is = "missing" ],
                   [ Range(10, 0) EXCEPT !.end_is = "missing" ],
                   [ Range(0, 200) EXCEPT !.start_is = "null" ],
                   [ Range(10, 0) EXCEPT !.end_is = "null" ] } }

Tok(t) == [ tok |-> t, body |-> NoBody ]

Members(b) == [ tok |-> "members", body |-> b ]

Object(b) == << Tok("{"), Members(b), Tok("}") >>

\* a body that crosses: start after end
Crossed == [ NoBody EXCEPT !.notes = Range(301, 120) ]

\* what generate_with_retry returns for the mapping prompt, already stripped
ResponseTexts ==
  { Object(b) : b \in Bodies }
  \cup { << Tok("fence"), Tok("json"), Tok("\n") >> \o Object(b)
           \o << Tok("\n"), Tok("fence") >> : b \in { Scenario500, Crossed } }
  \cup { << Tok("prose"), Tok("\n"), Tok("fence"), Tok("\n") >> \o Object(b)
           \o << Tok("fence"), Tok("\n"), Tok("prose") >> : b \in { Scenario500 } }
  \cup { << Tok("prose"), Tok(" ") >> \o Object(b) \o << Tok(" "), Tok("prose") >> :
           b \in { Scenario500, Crossed } }
  \cup { <<>>,
         << Tok("prose") >>,
         << Tok("{"), Tok("}") >>,
         << Tok("["), Tok("]") >>,
         << Tok("{"), Members(Scenario500) >>,
         << Tok("}"), Tok("prose"), Tok("{") >>,
         << Tok("{"), Tok("prose"), Tok("}") >>,
         << Tok("fence"), Tok("prose"), Tok("fence") >>,
         Object(Scenario500) \o << Tok("prose") >> \o Object(Crossed) }

IsSpaceToken(t) == t.tok \in { " ", "\n", "\t" }

\* str.strip() on tokens
StripTokens(s) ==
  LET keep == { i \in 1..Len(s) : ~IsSpaceToken(s[i]) }
  IN IF keep = {} THEN <<>>
     ELSE SubSeq(s, CHOOSE i \in keep : \A j \in keep : i <= j,
                    CHOOSE i \in keep : \A j \in keep : i >= j)

\* str.split(sep)
RECURSIVE Split(_, _)
Split(s, sep) ==
  IF \A i \in 1..Len(s) : s[i] # sep THEN << s >>
  ELSE LET i == CHOOSE i \in 1..Len(s) :
                   s[i] = sep /\ \A j \in 1..(i - 1) : s[j] # sep
       IN << SubSeq(s, 1, i - 1) >> \o Split(SubSeq(s, i + 1, Len(s)), sep)

\* lines 233-241: the first part between code fences that, stripped and
\* without a leading `json`, starts with { and ends with }
strip_code_fences(clean_response) ==
  LET parts == Split(clean_response, Tok("fence"))
      cleaned(part) ==
        LET stripped == StripTokens(part)
        IN IF Len(stripped) > 0 /\ stripped[1] = Tok("json")
             THEN StripTokens(Tail(stripped)) ELSE stripped
      braced == { i \in 1..Len(parts) :
                    LET part == cleaned(parts[i])
                    IN Len(part) > 0 /\ part[1] = Tok("{") /\ part[Len(part)] = Tok("}") }
  IN IF Len(parts) > 1 /\ braced # {}
       THEN cleaned(parts[CHOOSE i \in braced : \A j \in braced : i <= j])
       ELSE clean_response

\* lines 244-247: from the first { to the last }
outermost_braces(clean_response) ==
  LET opens == { i \in 1..Len(clean_response) : clean_response[i] = Tok("{") }
      closes == { i \in 1..Len(clean_response) : clean_response[i] = Tok("}") }
      start_idx == IF opens = {} THEN -1
                   ELSE (CHOOSE i \in opens : \A j \in opens : i <= j) - 1
      end_idx == IF closes = {} THEN 0
                 ELSE CHOOSE i \in closes : \A j \in closes : i >= j
  IN IF start_idx # -1 /\ end_idx > start_idx
       THEN SubSeq(clean_response, start_idx + 1, end_idx)
       ELSE clean_response

\* json.loads: an object, a list, or JSONDecodeError
json_loads(text) ==
  LET t == StripTokens(text)
  IN IF Len(t) = 3 /\ t[1] = Tok("{") /\ t[2].tok = "members" /\ t[3] = Tok("}")
       THEN [ exc |-> "none", kind |-> "dict", body |-> t[2].body ]
     ELSE IF t = << Tok("{"), Tok("}") >>
       THEN [ exc |-> "none", kind |-> "dict", body |-> NoBody ]
     ELSE IF t = << Tok("["), Tok("]") >>
       THEN [ exc |-> "none", kind |-> "list", body |-> NoBody ]
     ELSE [ exc |-> "JSONDecodeError", kind |-> "none", body |-> NoBody ]

\* mutant: the bounds are clamped but stay 1-indexed
validate_region_one_indexed(region, pages) ==
  IF region.kind # "dict"
    THEN [ exc |-> "AttributeError", start |-> 0, end |-> 0 ]
  ELSE IF region.start_is = "null" \/ region.end_is = "null"
    THEN [ exc |-> "TypeError", start |-> 0, end |-> 0 ]
  ELSE [ exc |-> "none",
         start |-> Max(0, IF region.start_is = "missing" THEN 1 ELSE region.start),
         end |-> Min(pages - 1,
                     IF region.end_is = "missing" THEN pages ELSE region.end) ]

\* lines 255-257 for one region of the answer
validate_region(region, pages) ==
  IF region.kind # "dict"
    THEN [ exc |-> "AttributeError", start |-> 0, end |-> 0 ]
  ELSE IF region.start_is = "null" \/ region.end_is = "null"
    THEN [ exc |-> "TypeError", start |-> 0, end |-> 0 ]
  ELSE [ exc |-> "none",
         start |-> Max(0, (IF region.start_is = "missing" THEN 1 ELSE region.start) - 1),
         end |-> Min(pages - 1,
                     (IF region.end_is = "missing" THEN pages ELSE region.end) - 1) ]

\* the regions in the order of the two `for section in [...]` loops
first_error(loaded, pages) ==
  LET failing == { k \in 1..3 :
                     /\ loaded.body[RegionKeys[k]].kind # "absent"
                     /\ validate_region(loaded.body[RegionKeys[k]], pages).exc # "none" }
  IN IF loaded.exc # "none" THEN loaded.exc
     ELSE IF loaded.kind # "dict" \/ failing = {} THEN "none"
     ELSE validate_region(
            loaded.body[RegionKeys[CHOOSE k \in failing : \A j \in failing : k <= j]],
            pages).exc

\* mutant: an answer that lacks a region is given up as a whole
parse_response_all_or_default(text, pages) ==
  LET clean_response ==
        outermost_braces(strip_code_fences(StripTokens(text)))
      loaded == json_loads(clean_response)
      default_map == get_default_structure_map(pages)
      complete == /\ loaded.kind = "dict"
                  /\ \A k \in 1..3 : loaded.body[RegionKeys[k]].kind # "absent"
  IN [ exc |-> first_error(loaded, pages),
       map |-> [ section \in { "board_report", "financial_statements", "notes" } |->
                   IF complete
                     THEN [ start |-> validate_region(loaded.body[section], pages).start,
                            end |-> validate_region(loaded.body[section], pages).end ]
                     ELSE default_map[section] ] ]

\* lines 228-271, the body of the try: the exception it ends with, if any,
\* and the validated map with the missing regions taken from the default map
parse_response(text, pages) ==
  LET clean_response ==
        outermost_braces(strip_code_fences(StripTokens(text)))
      loaded == json_loads(clean_response)
      default_map == get_default_structure_map(pages)
  IN [ exc |-> first_error(loaded, pages),
       map |-> [ section \in { "board_report", "financial_statements", "notes" } |->
                   IF loaded.kind = "dict" /\ loaded.body[section].kind # "absent"
                     THEN [ start |-> validate_region(loaded.body[section], pages).start,
                            end |-> validate_region(loaded.body[section], pages).end ]
                     ELSE default_map[section] ] ]

\* mutant: only JSONDecodeError is caught
map_report_structure_json_errors_only(pages, toc, response) ==
  LET default_map == [ raised |-> FALSE, map |-> get_default_structure_map(pages) ]
      parsed == parse_response(response.text, pages)
  IN IF toc = "" THEN default_map
     ELSE IF response.state = "None" \/ response.text = <<>> THEN default_map
     ELSE IF parsed.exc = "JSONDecodeError" THEN default_map
     ELSE IF parsed.exc # "none" THEN [ raised |-> TRUE, map |-> NoMap ]
     ELSE [ raised |-> FALSE, map |-> parsed.map ]

\* lines 206-279, for a document that opens: the map returned, and whether
\* an exception leaves the function
map_report_structure(pages, toc, response) ==
  LET default_map == [ raised |-> FALSE, map |-> get_default_structure_map(pages) ]
      parsed == parse_response(response.text, pages)
  IN IF toc = "" THEN default_map
     ELSE IF response.state = "None" \/ response.text = <<>> THEN default_map
     ELSE IF parsed.exc # "none" THEN default_map
     ELSE [ raised |-> FALSE, map |-> parsed.map ]

----------------------------------------------------------------------------
(* slice_pdf and create_report_slices (pdf_processor.py 98-142, 282-322)   *)

\* the largest document slice_pdf is applied to with every range around it
MaxSlicedPages == 4

\* the return value None, and a new document given by the 0-indexed pages of
\* the parent it holds, in order
NoSlice == [ is_none |-> TRUE, pages |-> <<>> ]

SliceOf(from_page, to_page) ==
  [ is_none |-> FALSE,
    pages |-> [ i \in 1..(to_page - from_page + 1) |-> from_page + i - 1 ] ]

\* mutant: the last page of the range is left out
slice_pdf_end_exclusive(pages, first, last) ==
  LET lo == Max(0, first)
      hi == Min(pages - 1, last)
  IN IF lo > hi THEN NoSlice ELSE SliceOf(lo, hi - 1)

\* mutant: a crossed range is put in order
slice_pdf_swaps(pages, first, last) ==
  LET lo == Max(0, first)
      hi == Min(pages - 1, last)
  IN IF lo > hi
       THEN IF hi >= 0 /\ lo <= pages - 1 THEN SliceOf(hi, lo) ELSE NoSlice
       ELSE SliceOf(lo, hi)

\* lines 114-138 for a document of `pages` pages that opens
slice_pdf(pages, first, last) ==
  LET lo == Max(0, first)
      hi == Min(pages - 1, last)
  IN IF lo > hi THEN NoSlice ELSE SliceOf(lo, hi)

NoSlices == [ board_slice |-> NoSlice, financial_slice |-> NoSlice ]

\* mutant: the financial slice stops with the financial statements
create_report_slices_without_notes(pages, map) ==
  [ board_slice |-> slice_pdf(pages, map.board_report.start, map.board_report.end),
    financial_slice |-> slice_pdf(pages, map.financial_statements.start,
                                  map.financial_statements.end) ]

\* lines 300-322 for a map that has its three regions
create_report_slices(pages, map) ==
  [ board_slice |-> slice_pdf(pages, map.board_report.start, map.board_report.end),
    financial_slice |-> slice_pdf(pages, map.financial_statements.start,
                                  map.notes.end) ]

\* the page counts map_report_structure is explored with (heavy documents)
MappedPages == { 301, 500 }

----------------------------------------------------------------------------
(* Two runs on identical inputs (cli_runner.py 159-345)                    *)

\* what the file system, the slicing, the uploads, the section generator and
\* the save answered in one run of process_company
NoResponses ==
  [ doc |-> NoDocument,
    slices |-> [ board_slice |-> FALSE, financial_slice |-> FALSE ],
    uploads |-> << None, None, None, None >>,
    section_html |-> <<>>,
    save |-> FALSE ]

NoRun ==
  [ responses |-> NoResponses, html_sections |-> <<>>, failed_sections |-> <<>>,
    company_ret |-> NoReturnValue ]

----------------------------------------------------------------------------
(* The server: generate_report and its background tasks (server.py)        *)

\* the requests the server is explored with, and the identifiers they name
MaxRequests == 2

ReportIds == { "uuid-1", "uuid-2" }

\* nothing stored under {report_id}/report.html and {report_id}/report.pdf;
\* a stored object is named by the task that uploaded it
NoObjects == [ html |-> 0, pdf |-> 0 ]

Upload(task, report_id, filename) ==
  [ task |-> task, report_id |-> report_id, filename |-> filename ]

\* a background task at an await of process_report_async
Task(report_id, at) == [ report_id |-> report_id, at |-> at ]

\* mutant: the pacing wait is awaited, the task yields after every pass
section_loop_yields_at_pacing(sid) == TRUE

\* server.py 287-314: whether the body of the section loop gives the event
\* loop control; generate_section_with_fallback (requests.post, time.sleep)
\* and time.sleep(API_DELAY) block, and nothing in the body is awaited
section_loop_yields(sid) == FALSE

\* the last pass a task makes before the event loop runs another task, when
\* it has made `done` passes
LastPass(done) ==
  LET stops == { k \in (done + 1)..Len(SECTIONS) :
                   k = Len(SECTIONS) \/ section_loop_yields(SECTIONS[k]) }
  IN CHOOSE k \in stops : \A j \in stops : k <= j

\* mutant: a report with failed sections is given the status failed
final_status_by_sections(failed) ==
  IF failed # <<>> THEN "failed" ELSE "completed"

\* server.py 346: the status at the end of the try block, whatever is in
\* failed_sections (348-349 only log it)
final_status(failed) == "completed"

----------------------------------------------------------------------------
(* Behaviours                                                              *)

\* the calls of generate_section_with_fallback that are explored
Calls ==
  { [ section_id |-> "company_profile", primary_uri |-> "uri_board_slice",
      secondary_uri |-> "uri_quarterly", fallback_uri |-> "uri_full_annual" ],
    [ section_id |-> "debt_structure", primary_uri |-> "uri_full_annual",
      secondary_uri |-> None, fallback_uri |-> "uri_full_annual" ] }

NoCall ==
  [ section_id |-> None, primary_uri |-> None, secondary_uri |-> None,
    fallback_uri |-> None ]

NoReturn == [ returned |-> FALSE, html_content |-> None, is_token_error |-> FALSE ]

CallReturn(step) ==
  [ returned |-> TRUE, html_content |-> step.html_content,
    is_token_error |-> step.is_token_error ]

\* the locals before the first statement of process_company /
\* process_report_async
CompanyStart ==
  /\ doc = NoDocument
  /\ is_heavy = FALSE
  /\ total_pages = 0
  /\ board_slice_bytes = FALSE
  /\ financial_slice_bytes = FALSE
  /\ full_annual_uri = None
  /\ board_slice_uri = None
  /\ financial_slice_uri = None
  /\ quarterly_uri = None
  /\ calls = <<>>
  /\ html_sections = <<>>
  /\ failed_sections = <<>>
  /\ events = <<>>
  /\ final_html = <<>>
  /\ saved = "no"
  /\ company_ret = NoReturnValue
  /\ report_status = NoStatus
  /\ structure_map = NoMap

Init ==
  /\ running \in { "generate_section_with_fallback", "generate_with_retry",
                   "get_default_structure_map", "map_report_structure",
                   "slice_pdf", "generate_report" } \cup Pipelines
  /\ pc = CASE running = "generate_section_with_fallback" -> "phase1"
             [] running = "generate_with_retry" -> "attempt"
             [] running \in { "get_default_structure_map", "map_report_structure",
                              "slice_pdf" } -> "call"
             [] running = "generate_report" -> "serving"
             [] OTHER -> "find_pdf_files"
  /\ \E c \in (IF running = "generate_section_with_fallback" THEN Calls ELSE { NoCall }) :
       /\ section_id = c.section_id
       /\ primary_uri = c.primary_uri
       /\ secondary_uri = c.secondary_uri
       /\ fallback_uri = c.fallback_uri
  /\ rate_limit_retries = 0
  /\ general_retries = 0
  /\ requests = <<>>
  /\ sleeps = NoSleeps
  /\ reply = NoReply
  /\ primary_ret = NoReturn
  /\ fallback_ret = NoReturn
  /\ result = NoResult
  /\ raised = FALSE
  /\ attempt = 0
  /\ outcome = NoOutcome
  /\ gwr_return = NotReturned
  /\ company = 1
  /\ fully_successful = 0
  /\ partial_success = 0
  /\ total_failed = 0
  /\ CompanyStart
  /\ toc_text = ""
  /\ response_text = ReturnNone
  /\ map_raised = FALSE
  /\ report_slices = NoSlices
  /\ start_page = 0
  /\ end_page = 0
  /\ sliced = NoSlice
  /\ rerun \in (IF running = "cli_runner" THEN BOOLEAN ELSE { FALSE })
  /\ first_run = NoRun
  /\ responses = NoResponses
  /\ tasks = <<>>
  /\ bucket = [ id \in ReportIds |-> NoObjects ]
  /\ in_flight = {}
  /\ writes = <<>>
  /\ report_rows = [ id \in ReportIds |-> "pending" ]
  /\ section_requests = <<>>
  /\ status_updates = <<>>

Request(phase, args) ==
  [ phase |-> phase, payload |-> Payload(section_id, args[1], args[2]) ]

\* phase 1: one requests.post of the first call_section_api and what follows
PrimaryRequest ==
  /\ running = "generate_section_with_fallback"
  /\ pc = "phase1"
  /\ \E r \in Replies :
       LET step == call_section_api_step(rate_limit_retries, general_retries, r)
           then == after_primary(section_id, step.html_content, step.is_token_error)
       IN /\ requests' = Append(requests,
                 Request(1, primary_call_args(primary_uri, secondary_uri, fallback_uri)))
          /\ reply' = r
          /\ IF step.ctl = "continue" THEN
                  /\ rate_limit_retries' = step.rate_limit_retries
                  /\ general_retries' = step.general_retries
                  /\ sleeps' = AddSleeps(sleeps, step.slept)
                  /\ UNCHANGED <<pc, primary_ret, result, raised>>
             ELSE IF step.ctl = "raise" THEN
                  /\ raised' = TRUE
                  /\ pc' = "done"
                  /\ rate_limit_retries' = step.rate_limit_retries
                  /\ general_retries' = step.general_retries
                  /\ UNCHANGED <<sleeps, primary_ret, result>>
             ELSE /\ primary_ret' = CallReturn(step)
                  /\ raised' = FALSE
                  /\ IF then.next = "phase2"
                       THEN /\ pc' = "phase2"
                            /\ rate_limit_retries' =
                                 call_section_api_entry(
                                   step.rate_limit_retries,
                                   step.general_retries).rate_limit_retries
                            /\ general_retries' =
                                 call_section_api_entry(
                                   step.rate_limit_retries,
                                   step.general_retries).general_retries
                            /\ sleeps' = NoSleeps
                            /\ result' = result
                       ELSE /\ pc' = "done"
                            /\ rate_limit_retries' = step.rate_limit_retries
                            /\ general_retries' = step.general_retries
                            /\ sleeps' = sleeps
                            /\ result' = then.value
  /\ UNCHANGED <<running, section_id, primary_uri, secondary_uri, fallback_uri,
                 fallback_ret, attempt, outcome, gwr_return>>
  /\ UNCHANGED <<company_vars, batch_vars>>
  /\ UNCHANGED pdf_vars
  /\ UNCHANGED server_vars
  /\ UNCHANGED replay_vars

\* phase 2: one requests.post of the second call_section_api and what follows
FallbackRequest ==
  /\ running = "generate_section_with_fallback"
  /\ pc = "phase2"
  /\ \E r \in Replies :
       LET step == call_section_api_step(rate_limit_retries, general_retries, r)
           then == after_fallback(section_id, step.html_content, step.is_token_error)
       IN /\ requests' = Append(requests,
                 Request(2, fallback_call_args(primary_uri, secondary_uri, fallback_uri)))
          /\ reply' = r
          /\ rate_limit_retries' = step.rate_limit_retries
          /\ general_retries' = step.general_retries
          /\ sleeps' = AddSleeps(sleeps, step.slept)
          /\ IF step.ctl = "continue" THEN
                  UNCHANGED <<pc, fallback_ret, result, raised>>
             ELSE IF step.ctl = "raise" THEN
                  /\ raised' = TRUE
                  /\ pc' = "done"
                  /\ UNCHANGED <<fallback_ret, result>>
             ELSE /\ fallback_ret' = CallReturn(step)
                  /\ raised' = FALSE
                  /\ pc' = "done"
                  /\ result' = then.value
  /\ UNCHANGED <<running, section_id, primary_uri, secondary_uri, fallback_uri,
                 primary_ret, attempt, outcome, gwr_return>>
  /\ UNCHANGED <<company_vars, batch_vars>>
  /\ UNCHANGED pdf_vars
  /\ UNCHANGED server_vars
  /\ UNCHANGED replay_vars

\* one model.generate_content of generate_with_retry and what follows
GenerateAttempt ==
  /\ running = "generate_with_retry"
  /\ pc = "attempt"
  /\ attempt < MAX_RETRIES
  /\ \E o \in Outcomes :
       LET step == generate_with_retry_step(MAX_RETRIES, BASE_DELAY, attempt, o)
       IN /\ outcome' = o
          /\ sleeps' = AddSleeps(sleeps, step.slept)
          /\ attempt' = attempt + 1
          /\ IF step.ctl = "return"
               THEN /\ pc' = "done"
                    /\ gwr_return' = step.value
             ELSE IF attempt + 1 < MAX_RETRIES
               THEN UNCHANGED <<pc, gwr_return>>
               ELSE /\ pc' = "done"
                    /\ gwr_return' = ReturnNone
  /\ UNCHANGED <<section_id, primary_uri, secondary_uri, fallback_uri, running,
                 rate_limit_retries, general_retries, requests, reply,
                 primary_ret, fallback_ret, result, raised>>
  /\ UNCHANGED <<company_vars, batch_vars>>
  /\ UNCHANGED pdf_vars
  /\ UNCHANGED server_vars
  /\ UNCHANGED replay_vars

\* a run after the first of a rerun batch: the collaborators answer as they
\* did in the first run
Replaying == rerun /\ company > 1

\* the answers of the current run, kept for a rerun batch
Recorded(r) == IF rerun THEN r ELSE responses

\* Step 1 of process_company: find_pdf_files and read_pdf_bytes; in
\* process_report_async the status update and download_pdf
FindPdfFiles ==
  /\ running \in Pipelines
  /\ pc = "find_pdf_files"
  /\ \E d \in DocumentsOf(running) :
       /\ doc' = d
       /\ Replaying => d = first_run.responses.doc
       /\ responses' = Recorded([ responses EXCEPT !.doc = d ])
       /\ IF running = "server"
            THEN /\ company_ret' = company_ret
                 /\ IF d.annual # "present"
                      THEN /\ report_status' = Status("failed", "Failed to download PDF")
                           /\ pc' = "returned"
                      ELSE /\ report_status' = Status("processing", None)
                           /\ pc' = "is_heavy_report"
            ELSE /\ report_status' = report_status
                 /\ IF d.annual = "missing"
                      THEN /\ company_ret' = ReturnValue(FALSE, << "NO_FILES" >>)
                           /\ pc' = "returned"
                    ELSE IF d.annual = "unreadable"
                      THEN /\ company_ret' = ReturnValue(FALSE, << "READ_ERROR" >>)
                           /\ pc' = "returned"
                    ELSE /\ company_ret' = company_ret
                         /\ pc' = "is_heavy_report"
  /\ UNCHANGED <<running, section_vars, batch_vars, is_heavy, total_pages,
                 board_slice_bytes, financial_slice_bytes, full_annual_uri,
                 board_slice_uri, financial_slice_uri, quarterly_uri, calls,
                 html_sections, failed_sections, events, final_html, saved,
                 structure_map>>
  /\ UNCHANGED pdf_vars
  /\ UNCHANGED server_vars
  /\ UNCHANGED <<rerun, first_run>>

\* Step 2: is_heavy_report and, for a heavy document, map_report_structure
\* and create_report_slices
ThresholdCheck ==
  /\ running \in Pipelines
  /\ pc = "is_heavy_report"
  /\ LET check == is_heavy_report(doc)
     IN /\ total_pages' = check.total_pages
        /\ IF check.is_heavy
             THEN \E slices \in SliceResults :
                    /\ board_slice_bytes' = slices.board_slice
                    /\ Replaying => slices = first_run.responses.slices
                    /\ responses' = Recorded([ responses EXCEPT !.slices = slices ])
                    /\ financial_slice_bytes' = slices.financial_slice
                    /\ events' = events \o
                         << Event("map_report_structure", "annual", 0),
                            Event("create_report_slices", "annual", 0) >>
                    /\ is_heavy' =
                         IF running = "server" THEN TRUE
                         ELSE heavy_after_slicing(slices.board_slice,
                                                  slices.financial_slice)
             ELSE /\ is_heavy' = FALSE
                  /\ UNCHANGED <<board_slice_bytes, financial_slice_bytes, events,
                                 responses>>
  /\ pc' = "upload"
  /\ UNCHANGED <<running, section_vars, batch_vars, doc, full_annual_uri,
                 board_slice_uri, financial_slice_uri, quarterly_uri, calls,
                 html_sections, failed_sections, final_html, saved,
                 company_ret, report_status, structure_map>>
  /\ UNCHANGED pdf_vars
  /\ UNCHANGED server_vars
  /\ UNCHANGED <<rerun, first_run>>

\* Step 3: the upload_pdf_to_gemini calls and what is done without a handle
UploadDocuments ==
  /\ running \in Pipelines
  /\ pc = "upload"
  /\ \E b \in (IF is_heavy /\ board_slice_bytes
                 THEN UploadResults("uri_board_slice") ELSE { None }),
        f \in (IF is_heavy /\ financial_slice_bytes
                 THEN UploadResults("uri_financial_slice") ELSE { None }),
        u \in UploadResults("uri_full_annual"),
        q \in (IF doc.quarterly THEN UploadResults("uri_quarterly") ELSE { None }) :
       LET heavy == IF running = "server"
                      THEN is_heavy /\ heavy_after_slice_upload(b, f)
                      ELSE is_heavy
           full == IF heavy THEN None ELSE u
           failed == upload_failed(heavy, full, b, f)
           uploads ==
             (IF is_heavy /\ board_slice_bytes
                THEN << Event("upload", "board_slice", 0) >> ELSE <<>>)
             \o (IF is_heavy /\ financial_slice_bytes
                   THEN << Event("upload", "financial_slice", 0) >> ELSE <<>>)
             \o (IF ~heavy THEN << Event("upload", "full_annual", 0) >> ELSE <<>>)
             \o (IF ~failed /\ doc.quarterly
                   THEN << Event("upload", "quarterly", 0) >> ELSE <<>>)
       IN /\ is_heavy' = heavy
          /\ Replaying => << b, f, u, q >> = first_run.responses.uploads
          /\ responses' = Recorded([ responses EXCEPT !.uploads = << b, f, u, q >> ])
          /\ events' = events \o uploads
          /\ full_annual_uri' = full
          /\ board_slice_uri' =
               IF running = "server" /\ ~heavy /\ ~failed THEN full ELSE b
          /\ financial_slice_uri' =
               IF running = "server" /\ ~heavy /\ ~failed THEN full ELSE f
          /\ quarterly_uri' = IF failed THEN None ELSE q
          /\ IF failed
               THEN /\ pc' = "returned"
                    /\ IF running = "server"
                         THEN /\ report_status' =
                                   Status("failed", "Failed to upload PDF to Gemini")
                              /\ company_ret' = company_ret
                         ELSE /\ company_ret' = ReturnValue(FALSE, << "UPLOAD_FAILED" >>)
                              /\ report_status' = report_status
               ELSE /\ pc' = "sections"
                    /\ UNCHANGED <<company_ret, report_status>>
  /\ UNCHANGED <<running, section_vars, batch_vars, doc, total_pages,
                 board_slice_bytes, financial_slice_bytes, calls,
                 html_sections, failed_sections, final_html, saved,
                 structure_map>>
  /\ UNCHANGED pdf_vars
  /\ UNCHANGED server_vars
  /\ UNCHANGED <<rerun, first_run>>

\* Step 4: one pass of `for section_id in SECTIONS`
GenerateSection ==
  /\ running \in Pipelines
  /\ pc = "sections"
  /\ LET sid == SECTIONS[Len(calls) + 1]
         args == IF running = "server"
                   THEN server_section_uris(is_heavy, sid, board_slice_uri,
                                            financial_slice_uri, quarterly_uri)
                   ELSE section_uris(is_heavy, sid, full_annual_uri,
                                     board_slice_uri, financial_slice_uri,
                                     quarterly_uri)
     IN \E section_html \in SectionResults(sid) :
          /\ calls' = Append(calls, args)
          /\ Replaying =>
               /\ Len(calls) < Len(first_run.responses.section_html)
               /\ section_html = first_run.responses.section_html[Len(calls) + 1]
          /\ responses' = Recorded([ responses EXCEPT
                                      !.section_html = Append(@, section_html) ])
          /\ html_sections' = append_section(running, html_sections, sid, section_html)
          /\ failed_sections' = IF HasErrorClass(section_html)
                                  THEN Append(failed_sections, sid)
                                  ELSE failed_sections
          /\ events' = events \o
               << Event("generate_section_with_fallback", sid, 0),
                  Event("section_html", sid, 0),
                  Event("sleep", sid, pacing(section_html)) >>
          /\ pc' = IF sections_left(Len(calls) + 1, section_html)
                     THEN "sections" ELSE "assemble"
  /\ UNCHANGED <<running, section_vars, batch_vars, doc, is_heavy, total_pages,
                 board_slice_bytes, financial_slice_bytes, full_annual_uri,
                 board_slice_uri, financial_slice_uri, quarterly_uri,
                 final_html, saved, company_ret, report_status,
                 structure_map>>
  /\ UNCHANGED pdf_vars
  /\ UNCHANGED server_vars
  /\ UNCHANGED <<rerun, first_run>>

\* Steps 5 and 6: assemble_report, the write of the report (save_html_report,
\* open(), upload_to_supabase) and the end of the function; the PDF copy of
\* the report changes nothing that is kept here
AssembleAndSave ==
  /\ running \in Pipelines
  /\ pc = "assemble"
  /\ final_html' = assemble_report(html_sections)
  /\ \E ok \in BOOLEAN :
       /\ saved' = IF ok THEN "ok" ELSE "failed"
       /\ Replaying => ok = first_run.responses.save
       /\ responses' = Recorded([ responses EXCEPT !.save = ok ])
       /\ events' = Append(events, Event("save", IF ok THEN "ok" ELSE "failed", 0))
       /\ IF running = "server"
            THEN /\ report_status' = Status(final_status(failed_sections), None)
                 /\ company_ret' = company_ret
            ELSE /\ report_status' = report_status
                 /\ company_ret' =
                      IF ~ok
                        THEN IF running = "cli_runner"
                               THEN ReturnValue(FALSE, << "SAVE_ERROR" >>)
                               ELSE RaisedException
                      ELSE IF failed_sections # <<>>
                        THEN ReturnValue(FALSE, failed_sections)
                      ELSE ReturnValue(TRUE, <<>>)
  /\ pc' = "returned"
  /\ UNCHANGED <<running, section_vars, batch_vars, doc, is_heavy, total_pages,
                 board_slice_bytes, financial_slice_bytes, full_annual_uri,
                 board_slice_uri, financial_slice_uri, quarterly_uri, calls,
                 html_sections, failed_sections, structure_map>>
  /\ UNCHANGED pdf_vars
  /\ UNCHANGED server_vars
  /\ UNCHANGED <<rerun, first_run>>

\* mutant: in a rerun batch the section lists are carried over to the next run
CompanyRestart_keeps_sections ==
  /\ doc' = NoDocument
  /\ is_heavy' = FALSE
  /\ total_pages' = 0
  /\ board_slice_bytes' = FALSE
  /\ financial_slice_bytes' = FALSE
  /\ full_annual_uri' = None
  /\ board_slice_uri' = None
  /\ financial_slice_uri' = None
  /\ quarterly_uri' = None
  /\ calls' = <<>>
  /\ html_sections' = IF rerun THEN html_sections ELSE <<>>
  /\ failed_sections' = IF rerun THEN failed_sections ELSE <<>>
  /\ events' = <<>>
  /\ final_html' = <<>>
  /\ saved' = "no"
  /\ company_ret' = NoReturnValue
  /\ report_status' = NoStatus
  /\ structure_map' = NoMap

\* the same locals at the start of the next call of process_company
CompanyRestart ==
  /\ doc' = NoDocument
  /\ is_heavy' = FALSE
  /\ total_pages' = 0
  /\ board_slice_bytes' = FALSE
  /\ financial_slice_bytes' = FALSE
  /\ full_annual_uri' = None
  /\ board_slice_uri' = None
  /\ financial_slice_uri' = None
  /\ quarterly_uri' = None
  /\ calls' = <<>>
  /\ html_sections' = <<>>
  /\ failed_sections' = <<>>
  /\ events' = <<>>
  /\ final_html' = <<>>
  /\ saved' = "no"
  /\ company_ret' = NoReturnValue
  /\ report_status' = NoStatus
  /\ structure_map' = NoMap

\* mutant: main of cli_runner with the list of the legacy script
DocumentLevel_two_words(entry) == { "NO_FILES", "UPLOAD_FAILED" }

\* the failure words main counts as a failed company
DocumentLevel(entry) ==
  IF entry = "cli_runner"
    THEN { "NO_FILES", "UPLOAD_FAILED", "READ_ERROR", "SAVE_ERROR", "EXCEPTION" }
    ELSE { "NO_FILES", "UPLOAD_FAILED" }

\* main: the rest of one pass of `for company_dir in sorted(company_dirs)`
\* and the start of the next
MainNext ==
  /\ running \in Batches
  /\ pc = "returned"
  /\ IF company_ret.raised
       THEN /\ total_failed' = total_failed + 1
            /\ UNCHANGED <<fully_successful, partial_success>>
     ELSE IF company_ret.success
       THEN /\ fully_successful' = fully_successful + 1
            /\ UNCHANGED <<partial_success, total_failed>>
     ELSE IF /\ company_ret.failed_sections # <<>>
             /\ company_ret.failed_sections[1] \notin DocumentLevel(running)
       THEN /\ partial_success' = partial_success + 1
            /\ UNCHANGED <<fully_successful, total_failed>>
     ELSE /\ total_failed' = total_failed + 1
          /\ UNCHANGED <<fully_successful, partial_success>>
  /\ IF company < NumCompanies
       THEN /\ company' = company + 1
            /\ pc' = "find_pdf_files"
            /\ CompanyRestart
       ELSE /\ company' = company
            /\ pc' = "batch_done"
            /\ UNCHANGED company_vars
  /\ UNCHANGED <<running, section_vars>>
  /\ UNCHANGED pdf_vars
  /\ UNCHANGED server_vars
  /\ rerun' = rerun
  /\ first_run' = IF rerun /\ company = 1
                    THEN [ responses |-> responses, html_sections |-> html_sections,
                           failed_sections |-> failed_sections,
                           company_ret |-> company_ret ]
                    ELSE first_run
  /\ responses' = IF company < NumCompanies THEN NoResponses ELSE responses

\* one call of get_default_structure_map
DefaultStructureMap ==
  /\ running = "get_default_structure_map"
  /\ pc = "call"
  /\ \E pages \in 1..MaxPages :
       /\ total_pages' = pages
       /\ structure_map' = get_default_structure_map(pages)
  /\ pc' = "done"
  /\ UNCHANGED <<running, section_vars, batch_vars, doc, is_heavy,
                 board_slice_bytes, financial_slice_bytes, full_annual_uri,
                 board_slice_uri, financial_slice_uri, quarterly_uri, calls,
                 html_sections, failed_sections, events, final_html, saved,
                 company_ret, report_status>>
  /\ UNCHANGED pdf_vars
  /\ UNCHANGED server_vars
  /\ UNCHANGED replay_vars

\* one call of map_report_structure on a heavy document
MapReportStructure ==
  /\ running = "map_report_structure"
  /\ pc = "call"
  /\ \E pages \in MappedPages, toc \in { "", "toc" },
        response \in { ReturnNone } \cup { ReturnText(t) : t \in ResponseTexts } :
       LET returned == map_report_structure(pages, toc, response)
       IN /\ total_pages' = pages
          /\ toc_text' = toc
          /\ response_text' = IF toc = "" THEN ReturnNone ELSE response
          /\ map_raised' = returned.raised
          /\ structure_map' = returned.map
          /\ pc' = IF returned.raised THEN "done" ELSE "create_report_slices"
  /\ UNCHANGED <<running, section_vars, batch_vars, doc, is_heavy,
                 board_slice_bytes, financial_slice_bytes, full_annual_uri,
                 board_slice_uri, financial_slice_uri, quarterly_uri, calls,
                 html_sections, failed_sections, events, final_html, saved,
                 company_ret, report_status>>
  /\ UNCHANGED <<report_slices, start_page, end_page, sliced>>
  /\ UNCHANGED server_vars
  /\ UNCHANGED replay_vars

\* create_report_slices on the map just returned
CreateReportSlices ==
  /\ running = "map_report_structure"
  /\ pc = "create_report_slices"
  /\ report_slices' = create_report_slices(total_pages, structure_map)
  /\ pc' = "done"
  /\ UNCHANGED <<running, section_vars, company_vars, batch_vars>>
  /\ UNCHANGED <<toc_text, response_text, map_raised, start_page, end_page, sliced>>
  /\ UNCHANGED server_vars
  /\ UNCHANGED replay_vars

\* one call of slice_pdf
SlicePdf ==
  /\ running = "slice_pdf"
  /\ pc = "call"
  /\ \E pages \in 1..MaxSlicedPages :
       \E first \in (0 - 2)..(pages + 1), last \in (0 - 2)..(pages + 1) :
         /\ total_pages' = pages
         /\ start_page' = first
         /\ end_page' = last
         /\ sliced' = slice_pdf(pages, first, last)
  /\ pc' = "done"
  /\ UNCHANGED <<running, section_vars, batch_vars, doc, is_heavy,
                 board_slice_bytes, financial_slice_bytes, full_annual_uri,
                 board_slice_uri, financial_slice_uri, quarterly_uri, calls,
                 html_sections, failed_sections, events, final_html, saved,
                 company_ret, report_status, structure_map>>
  /\ UNCHANGED <<toc_text, response_text, map_raised, report_slices>>
  /\ UNCHANGED server_vars
  /\ UNCHANGED replay_vars

\* POST /api/v1/reports/generate: the background task is added and the
\* response returned; nothing is known of earlier requests
GenerateReport ==
  /\ running = "generate_report"
  /\ pc = "serving"
  /\ Len(tasks) < MaxRequests
  /\ \E report_id \in ReportIds :
       tasks' = Append(tasks, Task(report_id, "update_report_status"))
  /\ section_requests' = Append(section_requests, <<>>)
  /\ status_updates' = Append(status_updates, <<>>)
  /\ UNCHANGED <<bucket, in_flight, writes, report_rows>>
  /\ UNCHANGED <<running, pc, section_vars, company_vars, batch_vars, pdf_vars,
                 replay_vars>>

\* process_report_async up to its first await: the status row is patched
StartProcessing ==
  /\ running = "generate_report"
  /\ \E t \in 1..Len(tasks) :
       /\ tasks[t].at = "update_report_status"
       /\ report_rows' = [ report_rows EXCEPT ![tasks[t].report_id] = "processing" ]
       /\ tasks' = [ tasks EXCEPT ![t].at = "download_pdf" ]
       /\ status_updates' =
            [ status_updates EXCEPT ![t] = Append(@, "processing") ]
  /\ UNCHANGED <<bucket, in_flight, writes, section_requests>>
  /\ UNCHANGED <<running, pc, section_vars, company_vars, batch_vars, pdf_vars,
                 replay_vars>>

\* from the download to the next await: steps 2 to 7 run without an await,
\* the section loop with its 8 calls of generate_section_with_fallback
\* among them, then the POST of report.html is sent; a failed download or
\* Gemini upload raises and the except clause patches the status row
ProcessDocuments ==
  /\ running = "generate_report"
  /\ \E t \in 1..Len(tasks), ok \in BOOLEAN :
       LET done == Len(section_requests[t])
           last == LastPass(done)
       IN /\ tasks[t].at \in { "download_pdf", "section_loop" }
          /\ tasks[t].at = "section_loop" => ok
          /\ IF ok
               THEN /\ section_requests' =
                         [ section_requests EXCEPT
                             ![t] = @ \o SubSeq(SECTIONS, done + 1, last) ]
                    /\ IF last = Len(SECTIONS)
                         THEN /\ in_flight' = in_flight \cup
                                   { Upload(t, tasks[t].report_id, "report.html") }
                              /\ tasks' = [ tasks EXCEPT ![t].at = "upload_html" ]
                         ELSE /\ in_flight' = in_flight
                              /\ tasks' = [ tasks EXCEPT ![t].at = "section_loop" ]
               ELSE /\ in_flight' = in_flight
                    /\ section_requests' = section_requests
                    /\ tasks' = [ tasks EXCEPT ![t].at = "update_status_failed" ]
  /\ UNCHANGED <<bucket, writes, report_rows, status_updates>>
  /\ UNCHANGED <<running, pc, section_vars, company_vars, batch_vars, pdf_vars,
                 replay_vars>>

\* the POST of report.html is answered: with x-upsert the object is stored
\* over what is there, or the upload fails and None is returned; then the
\* POST of report.pdf is sent if html_to_pdf gave bytes
UploadHtml ==
  /\ running = "generate_report"
  /\ \E t \in 1..Len(tasks), stored \in BOOLEAN, pdf_bytes \in BOOLEAN :
       LET report_id == tasks[t].report_id
           sent == Upload(t, report_id, "report.html")
       IN /\ tasks[t].at = "upload_html"
          /\ bucket' = IF stored THEN [ bucket EXCEPT ![report_id].html = t ]
                                 ELSE bucket
          /\ writes' = IF stored THEN Append(writes, sent) ELSE writes
          /\ in_flight' = ( in_flight \ { sent } ) \cup
               ( IF pdf_bytes THEN { Upload(t, report_id, "report.pdf") } ELSE {} )
          /\ tasks' = [ tasks EXCEPT ![t].at =
                          IF pdf_bytes THEN "upload_pdf" ELSE "update_status_completed" ]
  /\ UNCHANGED <<report_rows, section_requests, status_updates>>
  /\ UNCHANGED <<running, pc, section_vars, company_vars, batch_vars, pdf_vars,
                 replay_vars>>

\* the POST of report.pdf is answered
UploadPdf ==
  /\ running = "generate_report"
  /\ \E t \in 1..Len(tasks), stored \in BOOLEAN :
       LET report_id == tasks[t].report_id
           sent == Upload(t, report_id, "report.pdf")
       IN /\ tasks[t].at = "upload_pdf"
          /\ bucket' = IF stored THEN [ bucket EXCEPT ![report_id].pdf = t ]
                                 ELSE bucket
          /\ writes' = IF stored THEN Append(writes, sent) ELSE writes
          /\ in_flight' = in_flight \ { sent }
          /\ tasks' = [ tasks EXCEPT ![t].at = "update_status_completed" ]
  /\ UNCHANGED <<report_rows, section_requests, status_updates>>
  /\ UNCHANGED <<running, pc, section_vars, company_vars, batch_vars, pdf_vars,
                 replay_vars>>

\* the last await: the status row is patched to completed or failed
FinishProcessing ==
  /\ running = "generate_report"
  /\ \E t \in 1..Len(tasks) :
       /\ tasks[t].at \in { "update_status_completed", "update_status_failed" }
       /\ report_rows' =
            [ report_rows EXCEPT ![tasks[t].report_id] =
                IF tasks[t].at = "update_status_completed" THEN "completed"
                                                           ELSE "failed" ]
       /\ status_updates' =
            [ status_updates EXCEPT ![t] =
                Append(@, IF tasks[t].at = "update_status_completed"
                            THEN "completed" ELSE "failed") ]
       /\ tasks' = [ tasks EXCEPT ![t].at = "done" ]
  /\ UNCHANGED <<bucket, in_flight, writes, section_requests>>
  /\ UNCHANGED <<running, pc, section_vars, company_vars, batch_vars, pdf_vars,
                 replay_vars>>

Next ==
  \/ PrimaryRequest \/ FallbackRequest \/ GenerateAttempt
  \/ FindPdfFiles \/ ThresholdCheck \/ UploadDocuments \/ GenerateSection
  \/ AssembleAndSave \/ MainNext
  \/ DefaultStructureMap
  \/ MapReportStructure \/ CreateReportSlices \/ SlicePdf
  \/ GenerateReport \/ StartProcessing \/ ProcessDocuments
  \/ UploadHtml \/ UploadPdf \/ FinishProcessing

Spec == Init /\ [][Next]_vars

----------------------------------------------------------------------------
(* Properties                                                              *)

InSection == running = "generate_section_with_fallback"

\* the phase (1 or 2) of the latest request, 0 before the first
LastPhase == IF requests = <<>> THEN 0 ELSE requests[Len(requests)].phase

RequestsOfPhase(p) == Cardinality({ i \in 1..Len(requests) : requests[i].phase = p })

\* time.sleep calls made by the current call_section_api
SleepCount ==
  Len(sleeps["rate_limit"]) + Len(sleeps["server_error"]) + Len(sleeps["timeout"])

\* the latest answer is an error answer classified rate-limited / token-limit
RateLimited(r) == r.kind = "response" /\ r.status_code # 200 /\ is_rate_limit_error(r)

TokenLimited(r) ==
  r.kind = "response" /\ r.status_code # 200 /\ ~is_rate_limit_error(r)
  /\ is_token_limit_error(r)

\* a string that is present and not empty
Filled(v) == v \notin { Absent, None, "" }

Success(r) == r.class = "section" /\ r.id = section_id /\ Filled(r.inner)
Failed(r, kind) ==
  /\ r.class = "error"
  /\ r.inner = CASE kind = "token_limit_exhausted" -> "too_large_even_single_file"
                 [] kind = "fallback_failed" -> "fallback_failed"
                 [] kind = "generic_failure" -> "generic"

\* C1: generate_section_with_fallback ends with exactly one of Success,
\* Failed(token_limit_exhausted), Failed(fallback_failed), Failed(generic_failure),
\* whatever the service answers, times out on or raises; no exception escapes
\* and nothing is produced before the end.
C1_ExactlyOneOutcome ==
  InSection =>
    /\ ~raised
    /\ pc # "done" => result = NoResult
    /\ pc = "done" =>
         Cardinality(
           { k \in { "success", "token_limit_exhausted", "fallback_failed",
                     "generic_failure" } :
               IF k = "success" THEN Success(result) ELSE Failed(result, k) }) = 1

C1_Witness ==
  InSection /\ pc = "done" /\ reply.kind = "exception" /\ Failed(result, "generic_failure")

\* C2: first request answered 400 and classified token-limit (phase 2 was
\* entered after one request), first phase 2 request answered 200 with content:
\* the section is Success and exactly two requests were made.
C2_FallbackSuccessTwoCalls ==
  [][ ( /\ InSection
        /\ Len(requests) = 1 /\ reply.kind = "response" /\ reply.status_code = 400
        /\ pc = "phase2"
        /\ Len(requests') = 2
        /\ reply'.kind = "response" /\ reply'.status_code = 200
        /\ reply'.json.kind = "object"
        /\ Filled(IF reply'.json.html # Absent THEN reply'.json.html
                                                ELSE reply'.json.content) )
      => ( /\ pc' = "done"
           /\ Success(result')
           /\ result'.inner = (IF reply'.json.html # Absent
                                 THEN reply'.json.html ELSE reply'.json.content)
           /\ requests'[1].phase = 1 /\ requests'[2].phase = 2 ) ]_vars

C2_Witness ==
  /\ InSection /\ pc = "done" /\ Len(requests) = 2 /\ LastPhase = 2
  /\ reply.status_code = 200 /\ Success(result)
  /\ primary_ret.is_token_error

\* C3: every phase 2 request carries the fallback handle alone (fileUri2 is
\* empty, the quarterly handle is not sent), and phase 2 requests exist only
\* after phase 1 returned no content with the token-limit flag.
C3_FallbackPayload ==
  InSection =>
    /\ \A i \in 1..Len(requests) :
         requests[i].phase = 2 =>
           /\ requests[i].payload.fileUri1 = fallback_uri
           /\ requests[i].payload.fileUri2 = ""
    /\ \A i, j \in 1..Len(requests) : i < j => requests[i].phase <= requests[j].phase
    /\ RequestsOfPhase(2) > 0 =>
         /\ primary_ret.returned
         /\ primary_ret.is_token_error
         /\ ~Truthy(primary_ret.html_content)

C3_Witness ==
  /\ InSection /\ RequestsOfPhase(2) > 0
  /\ secondary_uri = "uri_quarterly" /\ fallback_uri # primary_uri
  /\ requests[1].payload.fileUri2 = "uri_quarterly"

\* C4 as stated: in phase 1, every answer with status 400 or with one of the
\* token-limit words in its body, in any letter case, moves the section to the
\* fallback phase.
C4_AnyTokenLimitAnswerFallsBack ==
  LET words == { <<"t","o","k","e","n">>, <<"l","i","m","i","t">>,
                 <<"e","x","c","e","e","d">>,
                 <<"i","n","v","a","l","i","d","a","r","g","u","m","e","n","t">>,
                 <<"r","e","s","o","u","r","c","e","e","x","h","a","u","s","t","e","d">>,
                 <<"t","o","o"," ","l","a","r","g","e">>,
                 <<"c","o","n","t","e","x","t"," ","l","e","n","g","t","h">> }
  IN ( /\ InSection /\ LastPhase = 1 /\ reply.kind = "response"
       /\ \/ reply.status_code = 400
          \/ \E w \in words : Contains(Lower(reply.text), w) )
     => pc = "phase2"

\* C4 amended: in phase 1, every answer other than status 200 that is not
\* classified rate-limited (status 429 or a rate-limit word in the body) and has
\* status 400 or one of the token-limit words in its body, in any letter case,
\* ends the call with the token-limit flag and moves the section to the
\* fallback phase.
C4_TokenLimitUnlessRateLimited ==
  LET words == { <<"t","o","k","e","n">>, <<"l","i","m","i","t">>,
                 <<"e","x","c","e","e","d">>,
                 <<"i","n","v","a","l","i","d","a","r","g","u","m","e","n","t">>,
                 <<"r","e","s","o","u","r","c","e","e","x","h","a","u","s","t","e","d">>,
                 <<"t","o","o"," ","l","a","r","g","e">>,
                 <<"c","o","n","t","e","x","t"," ","l","e","n","g","t","h">> }
      rate_words == { <<"t","o","o"," ","m","a","n","y"," ","r","e","q","u","e","s","t","s">>,
                      <<"r","a","t","e"," ","l","i","m","i","t">>,
                      <<"q","u","o","t","a">>, <<"4","2","9">>,
                      <<"r","e","s","o","u","r","c","e"," ","e","x","h","a","u","s","t","e","d">> }
  IN ( /\ InSection /\ LastPhase = 1 /\ reply.kind = "response"
       /\ reply.status_code # 200
       /\ reply.status_code # 429
       /\ ~ \E w \in rate_words : Contains(Lower(reply.text), w)
       /\ \/ reply.status_code = 400
          \/ \E w \in words : Contains(Lower(reply.text), w) )
     => ( /\ pc = "phase2"
          /\ primary_ret.returned /\ primary_ret.is_token_error
          /\ primary_ret.html_content = None
          /\ result = NoResult )

C4_Witness ==
  /\ InSection /\ LastPhase = 1 /\ pc = "phase2"
  /\ reply.status_code = 400 /\ reply.text = <<>>

\* C5: once phase 2 has run, the section ends Success on content, Failed
\* (token_limit_exhausted) on a second token-limit classification and Failed
\* (fallback_failed) on every other end of the phase 2 call (no content,
\* permanent error, rate-limit or general retries used up, exception);
\* there is no third phase.
C5_FallbackResolution ==
  ( InSection /\ pc = "done" /\ RequestsOfPhase(2) > 0 ) =>
    /\ LastPhase = 2
    /\ \A i \in 1..Len(requests) : requests[i].phase \in { 1, 2 }
    /\ fallback_ret.returned
    /\ Truthy(fallback_ret.html_content) <=> Success(result)
    /\ Success(result) => result.inner = fallback_ret.html_content
    /\ ( ~Truthy(fallback_ret.html_content) /\ fallback_ret.is_token_error )
         <=> Failed(result, "token_limit_exhausted")
    /\ ( ~Truthy(fallback_ret.html_content) /\ ~fallback_ret.is_token_error )
         <=> Failed(result, "fallback_failed")
    /\ TokenLimited(reply) => Failed(result, "token_limit_exhausted")
    /\ ( \/ reply.kind \in { "exception", "timeout" }
         \/ RateLimited(reply)
         \/ reply.kind = "response" /\ reply.status_code = 200
              /\ ~Truthy(DictGet(reply.json, "html", DictGet(reply.json, "content", "")))
         \/ reply.kind = "response" /\ reply.status_code \notin { 200 }
              /\ ~is_rate_limit_error(reply) /\ ~is_token_limit_error(reply) )
       => Failed(result, "fallback_failed")

C5_Witness ==
  /\ InSection /\ pc = "done" /\ LastPhase = 2
  /\ Failed(result, "token_limit_exhausted")
  /\ reply.status_code = 503 /\ RequestsOfPhase(2) > 1

\* C6: a phase 1 call that returns no content without the token-limit flag
\* ends the section as Failed(generic_failure), and no phase 2 request is made.
C6_GenericFailureNoFallback ==
  InSection =>
    /\ ( primary_ret.returned /\ ~Truthy(primary_ret.html_content)
         /\ ~primary_ret.is_token_error )
       => ( /\ pc = "done"
            /\ Failed(result, "generic_failure")
            /\ RequestsOfPhase(2) = 0 )
    /\ ( /\ LastPhase = 1 /\ reply.kind = "response" /\ reply.status_code = 200
         /\ reply.json.kind = "object"
         /\ ~Filled(reply.json.html) /\ ~Filled(reply.json.content) )
       => ( /\ pc = "done"
            /\ Failed(result, "generic_failure")
            /\ RequestsOfPhase(2) = 0 )

C6_Witness ==
  /\ InSection /\ pc = "done" /\ LastPhase = 1
  /\ reply.kind = "response" /\ reply.status_code = 200
  /\ reply.json.kind = "object" /\ reply.json.html = Absent /\ reply.json.content = ""
  /\ Failed(result, "generic_failure")

\* C7: a status-200 answer whose JSON object has a non-empty html string or a
\* non-empty content string ends the call with success, and the section is
\* that content in a fragment tagged with the section id, also when html is
\* present but empty and content is filled.
C7_HtmlOrContentSucceeds ==
  ( /\ InSection /\ requests # <<>>
    /\ reply.kind = "response" /\ reply.status_code = 200
    /\ reply.json.kind = "object"
    /\ Filled(reply.json.html) \/ Filled(reply.json.content) )
  => ( /\ pc = "done"
       /\ Success(result)
       /\ result.inner = (IF Filled(reply.json.html) THEN reply.json.html
                                                     ELSE reply.json.content) )

C9_RateLimitRetriesBounded ==
  InSection =>
    /\ rate_limit_retries <= 7
    /\ Len(sleeps["rate_limit"]) = Min(rate_limit_retries, 6)
    /\ ( RateLimited(reply) /\ rate_limit_retries <= 6 ) =>
         /\ pc = (IF LastPhase = 1 THEN "phase1" ELSE "phase2")
         /\ rate_limit_retries >= 1
    /\ rate_limit_retries = 7 =>
         /\ RateLimited(reply)
         /\ pc = "done"
         /\ LastPhase = 1 =>
              /\ primary_ret.returned /\ ~primary_ret.is_token_error
              /\ Failed(result, "generic_failure")
              /\ RequestsOfPhase(2) = 0
         /\ LastPhase = 2 =>
              /\ ~fallback_ret.is_token_error
              /\ Failed(result, "fallback_failed")

C9_Witness ==
  /\ InSection /\ pc = "done" /\ LastPhase = 1 /\ rate_limit_retries = 7
  /\ reply.text = <<"R","a","t","e"," ","L","i","m","i","t">>
  /\ Failed(result, "generic_failure")
  /\ RequestsOfPhase(1) >= 7

\* C10: an answer that is neither success, rate-limited, token-limit nor a
\* status 500, or an exception other than a timeout, ends the call at once:
\* no request and no wait follows it, and the call returns failure.
C10_PermanentErrorNotRetried ==
  LET permanent ==
        \/ reply.kind = "exception"
        \/ /\ reply.kind = "response"
           /\ reply.status_code = 200 /\ reply.json.kind # "object"
        \/ /\ reply.kind = "response"
           /\ reply.status_code \notin { 200, 500 }
           /\ ~is_rate_limit_error(reply) /\ ~is_token_limit_error(reply)
  IN ( InSection /\ permanent ) =>
       /\ pc = "done"
       /\ result.class = "error"
       /\ SleepCount = RequestsOfPhase(LastPhase) - 1
       /\ LastPhase = 1 => /\ primary_ret.returned
                           /\ primary_ret.html_content = None
                           /\ ~primary_ret.is_token_error
       /\ LastPhase = 2 => /\ fallback_ret.returned
                           /\ fallback_ret.html_content = None
                           /\ ~fallback_ret.is_token_error

C10_Witness ==
  /\ InSection /\ pc = "done" /\ LastPhase = 1
  /\ reply.kind = "response" /\ reply.status_code = 503
  /\ reply.text = <<"I","n","t","e","r","n","a","l"," ","E","r","r","o","r">>
  /\ general_retries = 1 /\ SleepCount = 1 /\ Len(requests) = 2

\* C11: in both retry wrappers an error whose text holds one of the words
\* quota, 429, too many requests, resource exhausted, in any letter case, is
\* handled as rate-limited and followed by the exponential rate-limit wait:
\* in call_section_api whatever the status code of the error answer, in
\* generate_with_retry whatever the exception type.
C11_RateLimitWordsBackOff ==
  LET words == { <<"q","u","o","t","a">>, <<"4","2","9">>,
                 <<"t","o","o"," ","m","a","n","y"," ","r","e","q","u","e","s","t","s">>,
                 <<"r","e","s","o","u","r","c","e"," ","e","x","h","a","u","s","t","e","d">> }
      named(text) == \E w \in words : Contains(Lower(text), w)
      waits == sleeps["rate_limit"]
  IN /\ ( /\ InSection /\ requests # <<>>
          /\ reply.kind = "response" /\ reply.status_code # 200
          /\ named(reply.text) )
        => /\ rate_limit_retries >= 1
           /\ rate_limit_retries <= MAX_RETRIES =>
                /\ Len(waits) = rate_limit_retries
                /\ waits[Len(waits)] = Min(30 * 2^(rate_limit_retries - 1), 600)
     /\ ( /\ running = "generate_with_retry" /\ attempt > 0
          /\ outcome.kind \notin { "text", "none" }
          /\ named(outcome.text) )
        => /\ waits # <<>>
           /\ waits[Len(waits)] = Min(30 * 2^(attempt - 1), 600)

InPipeline == running \in Pipelines

\* the threshold check of the current company has been made
Classified == InPipeline /\ pc \notin { "find_pdf_files", "is_heavy_report" }

EventsOf(op) == { i \in 1..Len(events) : events[i].op = op }

UploadsOf(what) ==
  { i \in 1..Len(events) : events[i].op = "upload" /\ events[i].arg = what }

\* C12: a document of at most 300 pages is processed as standard: no
\* structure mapping, no slicing and no slice upload take place, and the call
\* for each of the 8 sections, in order, has the full annual handle as primary
\* and as fallback and the quarterly handle (None without an uploaded
\* quarterly file) as secondary.
C12_StandardRouting ==
  ( Classified /\ doc.annual = "present" /\ doc.pages <= 300 ) =>
    /\ ~is_heavy
    /\ EventsOf("map_report_structure") = {}
    /\ EventsOf("create_report_slices") = {}
    /\ UploadsOf("board_slice") = {} /\ UploadsOf("financial_slice") = {}
    /\ quarterly_uri \in { None, "uri_quarterly" }
    /\ ~doc.quarterly => quarterly_uri = None
    /\ \A i \in 1..Len(calls) :
         /\ calls[i].section_id = SECTIONS[i]
         /\ calls[i].primary_uri = "uri_full_annual"
         /\ calls[i].secondary_uri = quarterly_uri
         /\ calls[i].fallback_uri = "uri_full_annual"
    /\ ( pc \in { "assemble", "returned", "batch_done" } /\ full_annual_uri # None )
         => Len(calls) = 8

C12_Witness ==
  /\ running = "cli_runner" /\ pc = "returned"
  /\ doc.pages = 50 /\ doc.quarterly /\ total_pages = 50
  /\ Len(calls) = 8
  /\ calls[8] = [ section_id |-> "liquidation_analysis",
                  primary_uri |-> "uri_full_annual",
                  secondary_uri |-> "uri_quarterly",
                  fallback_uri |-> "uri_full_annual" ]

\* C13: for a heavy document (more than 300 pages) with at least one slice
\* handle, the call for each section of company_profile, executive_summary,
\* business_environment, asset_portfolio_analysis has the board slice handle
\* as primary, or the financial one when there is no board handle; the call
\* for each other section has the financial slice handle, or the board one
\* when there is no financial handle; secondary is the quarterly handle and
\* fallback is the same handle as primary.
C13_HeavyRouting ==
  ( InPipeline /\ is_heavy
    /\ ( board_slice_uri # None \/ financial_slice_uri # None ) ) =>
    /\ total_pages > 300
    /\ board_slice_uri \in { None, "uri_board_slice" }
    /\ financial_slice_uri \in { None, "uri_financial_slice" }
    /\ \A i \in 1..Len(calls) :
         /\ calls[i].section_id = SECTIONS[i]
         /\ calls[i].section_id \in
              { "company_profile", "executive_summary", "business_environment",
                "asset_portfolio_analysis" }
            => calls[i].primary_uri =
                 (IF board_slice_uri # None THEN "uri_board_slice"
                                            ELSE "uri_financial_slice")
         /\ calls[i].section_id \in
              { "debt_structure", "financial_analysis", "cash_flow_and_liquidity",
                "liquidation_analysis" }
            => calls[i].primary_uri =
                 (IF financial_slice_uri # None THEN "uri_financial_slice"
                                                ELSE "uri_board_slice")
         /\ calls[i].secondary_uri = quarterly_uri
         /\ calls[i].fallback_uri = calls[i].primary_uri
    /\ pc \in { "assemble", "returned", "batch_done" } => Len(calls) = 8

C13_Witness ==
  /\ running = "server" /\ pc = "returned" /\ is_heavy
  /\ board_slice_uri = "uri_board_slice"
  /\ financial_slice_uri = "uri_financial_slice"
  /\ quarterly_uri = "uri_quarterly"
  /\ Len(calls) = 8
  /\ calls[4].primary_uri = "uri_board_slice"
  /\ calls[5].primary_uri = "uri_financial_slice"

\* C14: when create_report_slices gives neither a board slice nor a financial
\* slice for a heavy document, the document is processed as standard: no
\* slice is uploaded, the full document is, and with its handle all 8
\* sections are generated from it; the company fails at this point only when
\* that upload gives no handle.
C14_NoSliceDegradesToStandard ==
  ( Classified /\ total_pages > 300
    /\ ~board_slice_bytes /\ ~financial_slice_bytes ) =>
    /\ EventsOf("create_report_slices") # {}
    /\ running # "server" => ~is_heavy
    /\ pc # "upload" =>
         /\ ~is_heavy
         /\ UploadsOf("board_slice") = {} /\ UploadsOf("financial_slice") = {}
         /\ Cardinality(UploadsOf("full_annual")) = 1
         /\ full_annual_uri = None <=>
              /\ pc \in { "returned", "batch_done" }
              /\ calls = <<>>
         /\ full_annual_uri = None =>
              \/ company_ret = ReturnValue(FALSE, << "UPLOAD_FAILED" >>)
              \/ report_status.status = "failed"
         /\ \A i \in 1..Len(calls) :
              /\ calls[i].section_id = SECTIONS[i]
              /\ calls[i].primary_uri = "uri_full_annual"
              /\ calls[i].fallback_uri = "uri_full_annual"
         /\ ( pc \in { "assemble", "returned", "batch_done" }
              /\ full_annual_uri # None ) => Len(calls) = 8

C14_Witness ==
  /\ running = "batch_report_generator" /\ pc = "returned"
  /\ total_pages = 301 /\ ~board_slice_bytes /\ ~financial_slice_bytes
  /\ EventsOf("create_report_slices") # {}
  /\ full_annual_uri = "uri_full_annual"
  /\ Len(calls) = 8 /\ calls[1].primary_uri = "uri_full_annual"
  /\ company_ret.returned

\* the fragment is the result of the given section: its content in the div
\* tagged with the section id, or the error placeholder naming the section
IsResultOf(r, sid) ==
  \/ r.class = "section" /\ r.id = sid /\ Filled(r.inner)
  \/ r.class = "error" /\ r.name = display_name(sid)
       /\ r.inner \in { "generic", "too_large_even_single_file", "fallback_failed" }

IsSectionResult(r) == \E i \in 1..Len(SECTIONS) : IsResultOf(r, SECTIONS[i])

Ended == pc \in { "returned", "batch_done" }

\* C15: what is handed to assemble_report, and the assembled report, hold
\* exactly one result per entry of SECTIONS in the order of SECTIONS
\* (company_profile first, liquidation_analysis last), each either generated
\* content or an error placeholder, whatever the number of failed sections;
\* process_report_async puts the holding chart block, which is no section
\* result, after company_profile.
C15_OneResultPerSectionInOrder ==
  LET assembled == IF pc = "assemble" THEN html_sections ELSE final_html
      results == SelectSeq(assembled, IsSectionResult)
  IN ( InPipeline /\ ( pc = "assemble" \/ ( Ended /\ final_html # <<>> ) ) ) =>
       /\ Len(results) = 8
       /\ \A i \in 1..8 : IsResultOf(results[i], SECTIONS[i])
       /\ IsResultOf(results[1], "company_profile")
       /\ IsResultOf(results[8], "liquidation_analysis")
       /\ running # "server" => assembled = results
       /\ running = "server" =>
            assembled = << results[1], holding_chart_html >> \o SubSeq(results, 2, 8)

C15_Witness ==
  /\ running = "cli_runner" /\ pc = "returned" /\ saved = "ok"
  /\ Len(final_html) = 8
  /\ failed_sections = << "executive_summary", "liquidation_analysis" >>
  /\ final_html[2].class = "error" /\ final_html[3].class = "section"

\* C16: a failed section never ends the company: the loop goes on to the
\* remaining sections, the report is assembled from all 8 results and its
\* write is made (and the report is there unless the write itself fails),
\* and the failed sections are what the company returns.
C16_SectionFailureDoesNotAbort ==
  ( InPipeline /\ failed_sections # <<>> ) =>
    /\ pc \in { "sections", "assemble", "returned", "batch_done" }
    /\ \A i \in 1..Len(calls) : calls[i].section_id = SECTIONS[i]
    /\ \A j \in 1..Len(failed_sections) :
         \E i \in 1..Len(calls) : calls[i].section_id = failed_sections[j]
    /\ pc = "sections" => Len(calls) < 8
    /\ pc # "sections" => Len(calls) = 8
    /\ Ended =>
         /\ Len(SelectSeq(final_html, IsSectionResult)) = 8
         /\ EventsOf("save") # {}
         /\ saved \in { "ok", "failed" }
         /\ ( running \in Batches /\ saved = "ok" ) =>
              company_ret = ReturnValue(FALSE, failed_sections)
         /\ running = "server" => report_status.status = "completed"

C16_Witness ==
  /\ running = "cli_runner" /\ pc = "returned" /\ saved = "ok"
  /\ failed_sections = << "company_profile" >>
  /\ Len(calls) = 8 /\ calls[8].section_id = "liquidation_analysis"
  /\ final_html[1].class = "error" /\ final_html[8].class = "section"
  /\ company_ret = ReturnValue(FALSE, << "company_profile" >>)

\* no handle for the document the sections would read first
NoPrimaryHandle ==
  IF is_heavy THEN board_slice_uri = None /\ financial_slice_uri = None
              ELSE full_annual_uri = None

DocumentFailure ==
  \/ company_ret = ReturnValue(FALSE, << "NO_FILES" >>)
  \/ company_ret = ReturnValue(FALSE, << "UPLOAD_FAILED" >>)
  \/ report_status = Status("failed", "Failed to upload PDF to Gemini")
  \/ report_status = Status("failed", "Failed to download PDF")

\* C17: without a source PDF, or without a handle from the upload of the
\* document the sections would read first, the company ends at once: no
\* section request is made, nothing is assembled or written, the result is
\* NO_FILES / UPLOAD_FAILED (in process_report_async the status failed with
\* the reason), and main counts the company as failed and goes on to the
\* next company directory.
C17_DocumentFailureAborts ==
  /\ [] ( InPipeline =>
            /\ ( pc # "find_pdf_files" /\ doc.annual = "missing" ) =>
                 /\ Ended /\ DocumentFailure
                 /\ running \in Batches =>
                      company_ret = ReturnValue(FALSE, << "NO_FILES" >>)
            /\ ( pc \notin { "find_pdf_files", "is_heavy_report", "upload" }
                 /\ doc.annual = "present" /\ NoPrimaryHandle ) =>
                 /\ Ended /\ DocumentFailure
                 /\ running \in Batches =>
                      company_ret = ReturnValue(FALSE, << "UPLOAD_FAILED" >>)
                 /\ running = "server" =>
                      report_status = Status("failed", "Failed to upload PDF to Gemini")
            /\ DocumentFailure =>
                 /\ Ended
                 /\ calls = <<>> /\ html_sections = <<>>
                 /\ EventsOf("generate_section_with_fallback") = {}
                 /\ final_html = <<>> /\ saved = "no" /\ EventsOf("save") = {} )
  /\ [][ ( running \in Batches /\ pc = "returned" /\ DocumentFailure ) =>
           /\ total_failed' = total_failed + 1
           /\ fully_successful' = fully_successful
           /\ partial_success' = partial_success
           /\ company < NumCompanies =>
                /\ company' = company + 1
                /\ pc' = "find_pdf_files"
                /\ calls' = <<>> /\ company_ret' = NoReturnValue ]_vars

C17_Witness ==
  /\ running = "cli_runner" /\ pc = "returned"
  /\ doc.annual = "present" /\ is_heavy
  /\ UploadsOf("board_slice") # {} /\ UploadsOf("financial_slice") # {}
  /\ company_ret = ReturnValue(FALSE, << "UPLOAD_FAILED" >>)

\* the passes of the section loop as they are found in the event log: the
\* call, its return, the pacing wait
SectionPass(i, sid) ==
  /\ i + 2 <= Len(events)
  /\ events[i] = Event("generate_section_with_fallback", sid, 0)
  /\ events[i + 1] = Event("section_html", sid, 0)
  /\ events[i + 2] = Event("sleep", sid, 5)

\* C18: the sections of a company are generated one after the other: the
\* call for a section is followed by its return and then by a wait of
\* API_DELAY = 5 seconds, after a failed section as after a good one, and the
\* call for the next section comes only after that wait.
C18_SequentialWithPacing ==
  InPipeline =>
    LET requested == EventsOf("generate_section_with_fallback")
    IN /\ Cardinality(requested) = Len(calls)
       /\ Cardinality(EventsOf("sleep")) = Len(calls)
       /\ \A i \in requested :
            \E k \in 1..Len(calls) :
              /\ SectionPass(i, SECTIONS[k])
              /\ Cardinality({ j \in requested : j < i }) = k - 1
              /\ k > 1 => /\ i > 3
                          /\ SectionPass(i - 3, SECTIONS[k - 1])
       /\ \A i \in EventsOf("sleep") : events[i].secs = 5

C18_Witness ==
  /\ running = "server" /\ pc = "returned"
  /\ failed_sections = << "business_environment", "asset_portfolio_analysis" >>
  /\ Cardinality(EventsOf("sleep")) = 8
  /\ SectionPass(Len(events) - 3, "liquidation_analysis")

\* C19: a document whose page count cannot be read gets an error outcome from
\* the size check: it is not counted as 0 pages and it is not processed as a
\* standard (not heavy) document.
C19_PageCountFailureIsAnError ==
  ( Classified /\ doc.annual = "present" /\ doc.corrupt ) =>
    /\ total_pages # 0
    /\ ~ ( ~is_heavy /\ pc \in { "upload", "sections", "assemble" } )
    /\ EventsOf("upload") = {}
    /\ calls = <<>>

\* C20: for a document of N pages get_default_structure_map gives
\* board_report = [0, floor(0.25 N)], financial_statements =
\* [floor(0.25 N), floor(0.60 N)], notes = [floor(0.60 N), N - 1]; for
\* N = 1000 that is [0,250], [250,600], [600,999].
C20_DefaultStructureMap ==
  ( running = "get_default_structure_map" /\ pc = "done" ) =>
    LET N == total_pages
        quarter == CHOOSE k \in 0..N : 4 * k <= N /\ N < 4 * (k + 1)
        sixty == CHOOSE k \in 0..N : 10 * k <= 6 * N /\ 6 * N < 10 * (k + 1)
    IN /\ structure_map.board_report = [ start |-> 0, end |-> quarter ]
       /\ structure_map.financial_statements = [ start |-> quarter, end |-> sixty ]
       /\ structure_map.notes = [ start |-> sixty, end |-> N - 1 ]
       /\ N = 1000 =>
            /\ structure_map.board_report = [ start |-> 0, end |-> 250 ]
            /\ structure_map.financial_statements = [ start |-> 250, end |-> 600 ]
            /\ structure_map.notes = [ start |-> 600, end |-> 999 ]

C20_Witness ==
  /\ running = "get_default_structure_map" /\ pc = "done"
  /\ total_pages = 1000
  /\ structure_map.notes = [ start |-> 600, end |-> 999 ]

----------------------------------------------------------------------------
(* map_report_structure, create_report_slices and slice_pdf                *)

Mapped == running = "map_report_structure" /\ pc # "call"

ValidRange(r, pages) == 0 <= r.start /\ r.start <= r.end /\ r.end <= pages - 1

\* the positions of the parsed objects in a response
MembersOf(text) == { i \in 1..Len(text) : text[i].tok = "members" }

\* a response that is not one JSON object of the expected schema: no object
\* or several, an object that is not closed, or a region that is no object
\* or has null for a bound
SchemaFailure(text) ==
  \/ Cardinality(MembersOf(text)) # 1
  \/ \E i \in MembersOf(text) :
       \/ i = 1 \/ i = Len(text)
       \/ text[i - 1] # Tok("{") \/ text[i + 1] # Tok("}")
       \/ \E k \in 1..3 :
            LET region == text[i].body[RegionKeys[k]]
            IN \/ region.kind = "number"
               \/ region.kind = "dict"
                    /\ ( region.start_is = "null" \/ region.end_is = "null" )

\* the parsed object of a response that has exactly one
BodyOf(text) == text[CHOOSE i \in MembersOf(text) : TRUE].body

\* C21: for every document and every response of the model, the map returned
\* by map_report_structure has the three keys board_report,
\* financial_statements and notes, and each range satisfies
\* 0 <= start <= end <= N - 1.
C21_MapHasThreeValidRanges ==
  ( Mapped /\ ~map_raised ) =>
    /\ DOMAIN structure_map = { "board_report", "financial_statements", "notes" }
    /\ \A k \in 1..3 : ValidRange(structure_map[RegionKeys[k]], total_pages)

C23_ConvertedAndClamped ==
  ( Mapped /\ toc_text # "" /\ response_text.state = "text"
      /\ ~SchemaFailure(response_text.text) ) =>
    LET body == BodyOf(response_text.text)
    IN /\ \A k \in 1..3 :
            LET given == body[RegionKeys[k]]
                range == structure_map[RegionKeys[k]]
            IN given.kind = "dict" =>
                 /\ given.start_is = "int" => range.start = Max(0, given.start - 1)
                 /\ given.end_is = "int" => range.end = Min(total_pages - 1, given.end - 1)
       /\ ( total_pages = 500 /\ body = Scenario500 ) =>
            /\ structure_map.board_report = [ start |-> 0, end |-> 119 ]
            /\ structure_map.financial_statements = [ start |-> 120, end |-> 299 ]
            /\ structure_map.notes = [ start |-> 300, end |-> 499 ]

\* the 500-page example, answered inside a code fence
C23_Witness ==
  /\ Mapped
  /\ total_pages = 500
  /\ toc_text = "toc"
  /\ response_text.state = "text"
  /\ Len(response_text.text) > 3
  /\ response_text.text[1] = Tok("fence")
  /\ BodyOf(response_text.text) = Scenario500
  /\ structure_map =
       [ board_report |-> [ start |-> 0, end |-> 119 ],
         financial_statements |-> [ start |-> 120, end |-> 299 ],
         notes |-> [ start |-> 300, end |-> 499 ] ]

\* the pages first..last of the parent, in order
PagesFromTo(slice, first, last) ==
  /\ ~slice.is_none
  /\ Len(slice.pages) = last - first + 1
  /\ \A i \in 1..Len(slice.pages) : slice.pages[i] = first + i - 1

\* C24: create_report_slices builds the board slice over the board_report
\* range and the financial slice over the one range
\* [financial_statements.start, notes.end]; for the 500-page example the
\* financial slice covers pages [120,499].
C24_FinancialSliceMergesNotes ==
  ( running = "map_report_structure" /\ pc = "done" /\ ~map_raised ) =>
    LET board == structure_map.board_report
        merged == [ start |-> structure_map.financial_statements.start,
                    end |-> structure_map.notes.end ]
    IN /\ ValidRange(board, total_pages) =>
            PagesFromTo(report_slices.board_slice, board.start, board.end)
       /\ ValidRange(merged, total_pages) =>
            PagesFromTo(report_slices.financial_slice, merged.start, merged.end)
       /\ ( /\ total_pages = 500
            /\ structure_map.financial_statements = [ start |-> 120, end |-> 299 ]
            /\ structure_map.notes = [ start |-> 300, end |-> 499 ] ) =>
            /\ Len(report_slices.financial_slice.pages) = 380
            /\ report_slices.financial_slice.pages[1] = 120
            /\ report_slices.financial_slice.pages[380] = 499

\* the slices of the 500-page example
C24_Witness ==
  /\ running = "map_report_structure"
  /\ pc = "done"
  /\ total_pages = 500
  /\ response_text = ReturnText(Object(Scenario500))
  /\ PagesFromTo(report_slices.board_slice, 0, 119)
  /\ PagesFromTo(report_slices.financial_slice, 120, 499)

Sliced == running = "slice_pdf" /\ pc = "done"

\* C25: for a document of N pages and a range [s,e] with 0 <= s <= e < N,
\* slice_pdf succeeds and the slice has exactly e - s + 1 pages, the pages
\* s..e of the parent in order.
C25_ValidRangeGivesThosePages ==
  ( Sliced /\ 0 <= start_page /\ start_page <= end_page /\ end_page < total_pages ) =>
    /\ ~sliced.is_none
    /\ Len(sliced.pages) = end_page - start_page + 1
    /\ \A i \in 1..Len(sliced.pages) : sliced.pages[i] = start_page + i - 1

\* pages 1..3 of a document of four pages
C25_Witness ==
  /\ Sliced
  /\ total_pages = 4
  /\ start_page = 1
  /\ end_page = 3
  /\ sliced.pages = << 1, 2, 3 >>

\* C26: slice_pdf clamps start to max(0, start) and end to min(N - 1, end);
\* whenever start > end after clamping, in particular for every s > e and
\* for ranges outside [0, N - 1], it returns None and does not swap or
\* correct the range; otherwise the slice is the clamped range.
C26_ClampsAndFailsOnCrossedRange ==
  Sliced =>
    LET lo == IF start_page < 0 THEN 0 ELSE start_page
        hi == IF end_page > total_pages - 1 THEN total_pages - 1 ELSE end_page
    IN /\ lo > hi => sliced = NoSlice
       /\ start_page > end_page => sliced = NoSlice
       /\ ( end_page < 0 \/ start_page > total_pages - 1 ) => sliced = NoSlice
       /\ lo <= hi => PagesFromTo(sliced, lo, hi)

\* a crossed range inside the document: no slice
C26_Witness ==
  /\ Sliced
  /\ total_pages = 4
  /\ start_page = 3
  /\ end_page = 1
  /\ sliced = NoSlice

----------------------------------------------------------------------------
(* the two retry counters of call_section_api                             *)

\* an error answer with status 500 that is neither rate-limited nor token-limit
ServerError(r) ==
  /\ r.kind = "response" /\ r.status_code = 500
  /\ ~is_rate_limit_error(r) /\ ~is_token_limit_error(r)

\* one request of a call and its answer: what it does to the two counters
\* and whether the call goes on
CountersStep ==
  ( InSection /\ requests' # requests ) =>
    LET goes_on == pc' = pc
    IN /\ RateLimited(reply') =>
            /\ rate_limit_retries' = rate_limit_retries + 1
            /\ general_retries' = general_retries
            /\ goes_on <=> rate_limit_retries' <= MAX_RETRIES
       /\ ( reply'.kind = "timeout" \/ ServerError(reply') ) =>
            /\ general_retries' = general_retries + 1
            /\ rate_limit_retries' = rate_limit_retries
            /\ goes_on <=> general_retries' < max_general_retries

\* C30: within one call_section_api invocation a rate-limited answer never
\* uses general-retry budget, a 500 or a timeout never uses rate-limit
\* budget, and each kind of failure ends the call only at its own limit,
\* however the two kinds are interleaved.
C30_RetryCountersIndependent == [][CountersStep]_vars

\* a call that used two general retries and then all its rate-limit retries
C30_Witness ==
  /\ InSection
  /\ pc = "done"
  /\ RateLimited(reply)
  /\ rate_limit_retries = MAX_RETRIES + 1
  /\ general_retries = max_general_retries - 1
  /\ Len(sleeps["rate_limit"]) = MAX_RETRIES

----------------------------------------------------------------------------
(* the counters of main                                                    *)

AllSectionsSucceeded ==
  /\ Len(html_sections) = Len(SECTIONS)
  /\ \A i \in 1..Len(html_sections) : html_sections[i].class = "section"

SomeSectionFailed ==
  \E i \in 1..Len(html_sections) : html_sections[i].class = "error"

ReportProduced == saved = "ok"

\* main has counted the companies before the current one, and the current
\* one when the batch is done
CompaniesCounted == IF pc = "batch_done" THEN company ELSE company - 1

CountersSum ==
  running \in Batches =>
    fully_successful + partial_success + total_failed = CompaniesCounted

\* the step of main that counts the company that has just returned
Counting == running \in Batches /\ pc = "returned" /\ pc' # "returned"

ExactlyOneCounter ==
  \/ /\ fully_successful' = fully_successful + 1
     /\ UNCHANGED <<partial_success, total_failed>>
  \/ /\ partial_success' = partial_success + 1
     /\ UNCHANGED <<fully_successful, total_failed>>
  \/ /\ total_failed' = total_failed + 1
     /\ UNCHANGED <<fully_successful, partial_success>>

\* C29 as stated: every processed company is counted in exactly one of the
\* three counters, fully-successful iff all 8 sections succeeded,
\* partially-successful iff a report was produced and a section failed,
\* failed iff a document-level step failed; the counters sum to the number
\* of companies processed.
C29_AsStated ==
  /\ []CountersSum
  /\ [][ Counting =>
           /\ ExactlyOneCounter
           /\ fully_successful' # fully_successful <=> AllSectionsSucceeded
           /\ partial_success' # partial_success <=>
                ( ReportProduced /\ SomeSectionFailed )
           /\ total_failed' # total_failed <=> ~ReportProduced ]_vars

\* the section loop recorded no section, or some section, as failed
NoSectionRecorded == Len(calls) = Len(SECTIONS) /\ failed_sections = <<>>

SomeSectionRecorded == failed_sections # <<>>

\* C29: every processed company is counted in exactly one of the three
\* counters: fully-successful iff the report was written and the section
\* loop recorded none of the 8 sections as failed, partially-successful iff
\* the report was written and a section was recorded as failed, failed iff
\* no report was written (no documents, a read, upload or write failure, or
\* an exception); the counters sum to the number of companies processed.
C29_CountedOnceByOutcome ==
  /\ []CountersSum
  /\ [][ Counting =>
           /\ ExactlyOneCounter
           /\ fully_successful' # fully_successful <=>
                ( ReportProduced /\ NoSectionRecorded )
           /\ partial_success' # partial_success <=>
                ( ReportProduced /\ SomeSectionRecorded )
           /\ total_failed' # total_failed <=> ~ReportProduced ]_vars

\* the last company of a cli_runner batch: 8 sections succeeded, the report
\* could not be written, and it is the one company counted as failed
C29_Witness ==
  /\ running = "cli_runner"
  /\ pc = "batch_done"
  /\ AllSectionsSucceeded
  /\ saved = "failed"
  /\ company_ret = ReturnValue(FALSE, << "SAVE_ERROR" >>)
  /\ total_failed = 1
  /\ partial_success = 0
  /\ fully_successful = company - 1

----------------------------------------------------------------------------
(* writers of one report, and two runs on the same inputs                  *)

\* C27: no two writers write concurrently to the same report's output
\* location: the results for one identifier are written by one pipeline
\* run, also when the server receives two generate requests with the same
\* report_id.
C27_SingleWriterPerReport ==
  running = "generate_report" =>
    /\ \A u1 \in in_flight, u2 \in in_flight :
         u1.report_id = u2.report_id => u1.task = u2.task
    /\ \A i \in 1..Len(writes), j \in 1..Len(writes) :
         writes[i].report_id = writes[j].report_id => writes[i].task = writes[j].task

\* the slot of a section: which section it is and how it ended
Slot(r) == [ class |-> r.class, id |-> r.id, name |-> r.name,
             kind |-> IF r.class = "error" THEN r.inner ELSE None ]

RanAgain == rerun /\ company > 1 /\ pc \in { "returned", "batch_done" }

----------------------------------------------------------------------------
(* transient errors: how often and after which wait a call is retried      *)

InGenerate == running = "generate_with_retry"

\* ServiceUnavailable and DeadlineExceeded raised so far in this call of
\* generate_with_retry (each is followed by one wait)
TransientErrors == Len(sleeps["unavailable"]) + Len(sleeps["deadline"])

\* C31: a call that keeps hitting transient server errors or timeouts is
\* retried up to max_general_retries = 3 times and then given up as a
\* failure, in call_section_api and in generate_with_retry.
C31_TransientRetriesBounded ==
  /\ InSection =>
       /\ general_retries <= max_general_retries
       /\ general_retries = max_general_retries =>
            pc = "done" /\ result.class = "error"
  /\ InGenerate => TransientErrors <= max_general_retries

\* the wait that follows a transient error is 10 * attempt seconds
LinearWaitStep ==
  /\ ( InSection /\ requests' # requests /\ pc' = pc ) =>
       /\ ServerError(reply') =>
            sleeps'["server_error"] =
              Append(sleeps["server_error"], 10 * general_retries')
       /\ reply'.kind = "timeout" =>
            sleeps'["timeout"] = Append(sleeps["timeout"], 10 * general_retries')
  /\ ( InGenerate /\ attempt' # attempt ) =>
       /\ outcome'.kind = "ServiceUnavailable" =>
            sleeps'["unavailable"] =
              Append(sleeps["unavailable"], Min(10 * attempt', 60))
       /\ outcome'.kind = "DeadlineExceeded" =>
            sleeps'["deadline"] = Append(sleeps["deadline"], Min(10 * attempt', 60))

\* C32: the wait before the retry after a transient server error or a
\* timeout is the linear delay 10 * attempt seconds (capped), never the
\* exponential rate-limit delay: for HTTP 500 and timeouts in
\* call_section_api, for ServiceUnavailable and DeadlineExceeded in
\* generate_with_retry.
C32_TransientWaitIsLinear == [][LinearWaitStep]_vars

----------------------------------------------------------------------------
(* answers that lack a region, and slices that cannot be made              *)

\* C34: when a response that parses lacks one or two of the three regions,
\* map_report_structure fills exactly the missing regions with the default
\* range of that region and keeps the converted ranges of the regions that
\* are present; the map as a whole is not the default map.
C34_OnlyMissingRegionsDefaulted ==
  ( Mapped /\ toc_text # "" /\ response_text.state = "text"
      /\ ~SchemaFailure(response_text.text) ) =>
    LET body == BodyOf(response_text.text)
        default_map == get_default_structure_map(total_pages)
    IN \A k \in 1..3 :
         LET given == body[RegionKeys[k]]
             range == structure_map[RegionKeys[k]]
         IN /\ given.kind = "absent" => range = default_map[RegionKeys[k]]
            /\ ( given.kind = "dict" /\ given.start_is = "int" /\ given.end_is = "int" ) =>
                 range = [ start |-> Max(0, given.start - 1),
                           end |-> Min(total_pages - 1, given.end - 1) ]

\* the 500-page example without its board_report: the default first
\* quarter, and the two ranges of the answer
C34_Witness ==
  /\ Mapped
  /\ total_pages = 500
  /\ toc_text = "toc"
  /\ response_text =
       ReturnText(Object([ Scenario500 EXCEPT !.board_report = NoRegion ]))
  /\ structure_map =
       [ board_report |-> [ start |-> 0, end |-> 125 ],
         financial_statements |-> [ start |-> 120, end |-> 299 ],
         notes |-> [ start |-> 300, end |-> 499 ] ]

\* a range that slice_pdf cannot cut: crossed after clamping
Uncuttable(r, pages) ==
  ( IF r.start < 0 THEN 0 ELSE r.start ) >
    ( IF r.end > pages - 1 THEN pages - 1 ELSE r.end )

\* the handle kept for the one slice that was made: the handle of its upload,
\* or None or the full document's handle when its upload failed
RemainingSliceUri == IF board_slice_bytes THEN board_slice_uri ELSE financial_slice_uri

\* C35: when the range of one slice is invalid, create_report_slices
\* returns None for that slice, raises nothing and still makes the other
\* slice; the heavy pipeline then goes on with the remaining slice, once
\* it is uploaded, and does not fail the company.
C35_OneSliceIsEnough ==
  /\ ( running = "map_report_structure" /\ pc = "done" /\ ~map_raised ) =>
       LET board == structure_map.board_report
           merged == [ start |-> structure_map.financial_statements.start,
                       end |-> structure_map.notes.end ]
       IN /\ Uncuttable(merged, total_pages) =>
               /\ report_slices.financial_slice = NoSlice
               /\ ValidRange(board, total_pages) =>
                    PagesFromTo(report_slices.board_slice, board.start, board.end)
          /\ Uncuttable(board, total_pages) =>
               /\ report_slices.board_slice = NoSlice
               /\ ValidRange(merged, total_pages) =>
                    PagesFromTo(report_slices.financial_slice,
                                merged.start, merged.end)
  /\ ( Classified /\ board_slice_bytes # financial_slice_bytes ) =>
       /\ pc = "upload" => is_heavy
       /\ ( pc # "upload"
            /\ RemainingSliceUri \in { "uri_board_slice", "uri_financial_slice" } ) =>
            /\ is_heavy
            /\ ~DocumentFailure
            /\ UploadsOf("full_annual") = {}
            /\ \A i \in 1..Len(calls) :
                 /\ calls[i].primary_uri = RemainingSliceUri
                 /\ calls[i].fallback_uri = RemainingSliceUri

\* notes end before the financial statements start: no financial slice,
\* and the board slice is made
C35_Witness ==
  /\ running = "map_report_structure"
  /\ pc = "done"
  /\ total_pages = 500
  /\ structure_map.notes.end < structure_map.financial_statements.start
  /\ report_slices.financial_slice = NoSlice
  /\ PagesFromTo(report_slices.board_slice, 0, 125)

----------------------------------------------------------------------------
(* the number of requests of a call                                        *)

\* 1 initial request, MAX_RETRIES rate-limit retries, 2 general retries
MaxRequestsOfCall == 1 + MAX_RETRIES + ( max_general_retries - 1 )

\* C36: call_section_api terminates for every sequence of answers: one
\* invocation issues at most 9 requests (1 initial, at most 6 rate-limit
\* retries, at most 2 general retries), so one section issues at most 18
\* requests over its primary and fallback phases.
C36_RequestsBounded ==
  InSection =>
    /\ MaxRequestsOfCall = 9
    /\ RequestsOfPhase(1) <= 9
    /\ RequestsOfPhase(2) <= 9
    /\ Len(requests) <= 18
    /\ RequestsOfPhase(1) = 9 => pc # "phase1"
    /\ RequestsOfPhase(2) = 9 => pc = "done"
    /\ Len(requests) =
         RequestsOfPhase(1) + RequestsOfPhase(2)

\* a section that used every retry of both calls: 18 requests
C36_Witness ==
  /\ InSection
  /\ pc = "done"
  /\ RequestsOfPhase(1) = 9
  /\ RequestsOfPhase(2) = 9
  /\ rate_limit_retries = MAX_RETRIES
  /\ general_retries = max_general_retries - 1

----------------------------------------------------------------------------
(* the handles and the failed list of the section loop                     *)

\* the upload that returns a handle
UploadOfHandle ==
  [ uri_full_annual |-> "full_annual", uri_board_slice |-> "board_slice",
    uri_financial_slice |-> "financial_slice" ]

\* a handle returned by an upload of the current run
UploadedHandle(uri) ==
  /\ uri \in DOMAIN UploadOfHandle
  /\ uri \in { full_annual_uri, board_slice_uri, financial_slice_uri }
  /\ UploadsOf(UploadOfHandle[uri]) # {}

\* C37: in the three pipelines generate_section_with_fallback is never
\* called with a missing primary or fallback handle: the handle chosen for
\* each section is one returned by a successful upload of the same run.
C37_SectionHandlesPresent ==
  InPipeline =>
    \A i \in 1..Len(calls) :
      /\ calls[i].primary_uri # None
      /\ calls[i].fallback_uri # None
      /\ UploadedHandle(calls[i].primary_uri)
      /\ UploadedHandle(calls[i].fallback_uri)

\* a heavy document whose board slice could not be made: the 8 sections
\* read the financial slice
C37_Witness ==
  /\ InPipeline
  /\ is_heavy
  /\ ~board_slice_bytes
  /\ board_slice_uri = None
  /\ Len(calls) = Len(SECTIONS)
  /\ \A i \in 1..Len(calls) :
       /\ calls[i].primary_uri = "uri_financial_slice"
       /\ calls[i].fallback_uri = "uri_financial_slice"

\* the results of the sections generated so far, in the order of the calls
\* (the holding chart block of the server is no section result)
ResultsSoFar == SelectSeq(html_sections, IsSectionResult)

RecordedAsFailed(sid) ==
  \E j \in 1..Len(failed_sections) : failed_sections[j] = sid

\* generate_section_with_fallback resolved to a Failure: it returned one of
\* its three error placeholders, and not a div with the generated content
ResolvedToFailure(r) == r.class = "error"

\* C38: a section id is in failed_sections if and only if
\* generate_section_with_fallback resolved that section to a Failure; a
\* section that resolved to Success is never counted as failed, whatever the
\* HTML content the service returned.
C38_FailedIffResolvedToFailure ==
  ( InPipeline /\ pc \in { "sections", "assemble" } ) =>
    /\ Len(ResultsSoFar) = Len(calls)
    /\ \A i \in 1..Len(calls) :
         RecordedAsFailed(SECTIONS[i]) <=> ResolvedToFailure(ResultsSoFar[i])

----------------------------------------------------------------------------
(* The background tasks of the server: section requests and status updates *)

InServer == running = "generate_report"

\* the task has made some but not all passes of its section loop
InSectionLoop(t) ==
  Len(section_requests[t]) \notin { 0, Len(SECTIONS) }

\* a step in which task t calls generate_section_with_fallback
MakesSectionRequest(t) ==
  /\ t \in 1..Len(tasks)
  /\ section_requests'[t] # section_requests[t]

\* C39: in the server the section requests of different reports' tasks on
\* the one event loop never interleave: the section loop has no await, so
\* whenever the event loop has control every task has made none or all 8 of
\* its section requests, in the order of SECTIONS, and no task makes a
\* section request while another task is inside its section loop.
C39_SectionLoopsDoNotInterleave ==
  /\ []( InServer =>
           \A t \in 1..Len(tasks) :
             /\ section_requests[t] \in { <<>>, SECTIONS }
             /\ ~InSectionLoop(t) )
  /\ [][ InServer =>
           \A t, u \in 1..Len(tasks) :
             ( MakesSectionRequest(t) /\ u # t ) =>
               /\ ~InSectionLoop(u)
               /\ section_requests'[u] = section_requests[u] ]_vars

\* two tasks are between awaits together, both after their section loops:
\* their uploads of report.html are in flight and each made its 8 requests
C39_Witness ==
  /\ InServer
  /\ Len(tasks) = 2
  /\ tasks[1].at = "upload_html" /\ tasks[2].at = "upload_html"
  /\ section_requests = << SECTIONS, SECTIONS >>
  /\ Cardinality(in_flight) = 2

\* the statuses a task passed to update_report_status, in their order
StatusesOf(t) == status_updates[t]

\* the reasons of the exceptions raised by the steps on the whole document
DocumentLevelReasons ==
  { "Failed to download PDF", "Failed to upload PDF to Gemini" }

\* C40: the status updates of a background task are 'processing' first and
\* then exactly one of 'completed' and 'failed', never both; 'completed' is
\* issued when the section loop was run, whatever number of the 8 sections
\* failed, and 'failed' only when a step on the whole document (download,
\* upload to Gemini) raised, before any section request.
C40_ProcessingThenOneTerminalStatus ==
  /\ InServer =>
       \A t \in 1..Len(tasks) :
         /\ StatusesOf(t) \in { <<>>, << "processing" >>,
                                 << "processing", "completed" >>,
                                 << "processing", "failed" >> }
         /\ tasks[t].at = "update_report_status" <=> StatusesOf(t) = <<>>
         /\ tasks[t].at = "done" <=> Len(StatusesOf(t)) = 2
         /\ StatusesOf(t) = << "processing", "completed" >> =>
              section_requests[t] = SECTIONS
         /\ StatusesOf(t) = << "processing", "failed" >> =>
              section_requests[t] = <<>>
  /\ running = "server" =>
       /\ report_status.status \in { "none", "processing", "completed", "failed" }
       /\ report_status.status = "failed" =>
            /\ report_status.failure_reason \in DocumentLevelReasons
            /\ calls = <<>> /\ failed_sections = <<>>
            /\ pc = "returned"
       /\ ( pc = "returned" /\ calls # <<>> ) =>
            /\ Len(calls) = Len(SECTIONS)
            /\ report_status.status = "completed"
       /\ report_status.status = "completed" => pc = "returned"

\* process_report_async is over with the status completed and all 8
\* sections recorded as failed
C40_Witness ==
  /\ running = "server"
  /\ pc = "returned"
  /\ Len(failed_sections) = Len(SECTIONS)
  /\ \A i \in 1..Len(ResultsSoFar) : ResolvedToFailure(ResultsSoFar[i])
  /\ report_status = Status("completed", None)

====
